---------------------------- MODULE Spec2Model ----------------------------
(***************************************************************************)
(* nano-ui, src/src/nanoui-v2.js: the hyperscript builder h, the svg       *)
(* helper tags.svg and the keyed reconciler render/patchTree, over a       *)
(* model of the DOM tree they mutate.                                      *)
(*                                                                         *)
(* A node is a record of the store `nodes` (a sequence: the node's id is   *)
(* its index, so a reference is an id and a new node gets a new id).       *)
(* Descriptions are DOM elements too: h builds real nodes, and a pass      *)
(* either moves a description node into the live tree or patches the live  *)
(* node from it.                                                           *)
(***************************************************************************)
EXTENDS Integers, Sequences, FiniteSets, TLC

VARIABLES
    nodes,        \* the DOM: id -> node record
    elementRefs,  \* render's Map key -> node id (nanoui-v2.js:73)
    eventStore,   \* the WeakMap node id -> events object (nanoui-v2.js:70)
    thrown,       \* TRUE when the last invocation ended with an exception
    passes,       \* number of invocations of the renderer so far
    newElements,  \* the ids createElements returned in the last invocation
    built,        \* history: the DOM right after createElements returned
    before,       \* history: the state the last invocation started from
    matches,      \* history: one record per newChildren.forEach iteration
    fired,        \* history: last dispatch, and the handlers it invoked
    builder,      \* history: how the last call of createElements ended
    run,          \* the invocation in progress, statement by statement
    frames,       \* its stack of patchTree calls
    steps,        \* the statements it has executed
    tagsSvg,      \* the functions tags.svg returned (their svgCache), and
                  \* history: the strings parsed, the calls made
    invoker,      \* the calls of the invoker: those whose builder is running,
                  \* the one in patchTree, and history: the order in which
                  \* the calls began to change the tree
    state,        \* minui createStore: the state of the store
    subs,         \* its Set of subscribers, in insertion order
    callStack,    \* the calls of the store and of its subscribers in progress
    subscriptions, \* the calls of subscribe made, and history: what every
                  \* subscriber received
    element,      \* minui h: an element with its child nodes and key cache,
                  \* the nodes made for it, and history: the previous render
    renderer      \* nanoui render: the children of its container, elementMap
                  \* and valueMap, and history: the previous call

vars == <<nodes, elementRefs, eventStore, thrown, passes, newElements,
          built, before, matches, fired, builder, run, frames, steps, tagsSvg,
          invoker, state, subs, callStack, subscriptions, element, renderer>>

\* the variables of the other libraries of the repository, which render of
\* nanoui-v2 does not touch
others == <<state, subs, callStack, subscriptions, element, renderer>>

\* the variables of minui createStore
storing == <<state, subs, callStack, subscriptions>>

\* the variables of render of nanoui-v2
rendering ==
    <<nodes, elementRefs, eventStore, thrown, passes, newElements,
      built, before, matches, fired, builder, run, frames, steps, tagsSvg,
      invoker>>

-----------------------------------------------------------------------------
(* Bounds *)

MaxPasses == 3

\* invocations of the statement-by-statement specification
MaxStepPasses == 3

\* statements of patchTree one invocation may execute
MaxSteps == 40

\* evaluations of tags.svg, and calls of the functions they return
MaxSvgFunctions == 2

MaxSvgCalls == 3

\* calls of the invoker that have not returned
MaxNesting == 2

\* calls of update, subscribe and the unsubscribe functions of one store
MaxUpdates == 2

MaxSubscriptions == 2

MaxUnsubscribes == 2

\* calls of el.render of minui
MaxRenders == 3

\* calls of the function render of nanoui returns
MaxCalls == 3

-----------------------------------------------------------------------------
(* The DOM platform, as far as the code uses it *)

\* the id that stands for null / undefined
Null == 0

\* the container the tests create with document.createElement('div')
Container == 1

\* getAttribute's null
NoAttr == "<null>"

NoAttrs == [x \in {} |-> ""]

NewNode(tag) ==
    [tag |-> tag, attrs |-> NoAttrs, kids |-> <<>>, parent |-> Null,
     data |-> "", listeners |-> {}, value |-> "", dirty |-> FALSE,
     checked |-> FALSE]

IsText(N, n) == N[n].tag = "#text"

IsElementNode(N, n) == N[n].tag # "#text"

getAttribute(N, el, name) ==
    IF name \in DOMAIN N[el].attrs THEN N[el].attrs[name] ELSE NoAttr

setAttribute(N, el, name, v) ==
    [N EXCEPT ![el].attrs =
        [x \in (DOMAIN N[el].attrs) \cup {name} |->
            IF x = name THEN v ELSE N[el].attrs[x]]]

\* parent.children: the element children, in order
children(N, p) == SelectSeq(N[p].kids, LAMBDA c : IsElementNode(N, c))

\* seq[i] with JavaScript's 0-based index; undefined is Null
At(seq, i) == IF i + 1 \in 1..Len(seq) THEN seq[i + 1] ELSE Null

Without(seq, c) == SelectSeq(seq, LAMBDA x : x # c)

IndexOf(seq, c) == CHOOSE i \in 1..Len(seq) : seq[i] = c

InsertAt(seq, i, c) == SubSeq(seq, 1, i - 1) \o <<c>> \o SubSeq(seq, i, Len(seq))

RECURSIVE Ancestors(_, _)
\* the inclusive ancestors of n
Ancestors(N, n) ==
    IF N[n].parent = Null THEN {n} ELSE {n} \cup Ancestors(N, N[n].parent)

\* child.remove() / parent.removeChild(child)
removeNode(N, c) ==
    IF N[c].parent = Null THEN N
    ELSE [N EXCEPT ![N[c].parent].kids = Without(@, c), ![c].parent = Null]

\* DOM pre-insertion validity: a node cannot be inserted under itself
CanInsert(N, p, c) == c \notin Ancestors(N, p)

\* seq with c put before ref, or at the end when ref is Null
InsertBeforeIn(seq, c, ref) ==
    InsertAt(seq, IF ref = Null THEN Len(seq) + 1 ELSE IndexOf(seq, ref), c)

\* parent.insertBefore(c, ref); ref = Null is parent.appendChild(c).
\* When ref is c itself the DOM takes c's next sibling as the reference.
\* c leaves its old parent first.
insertBefore(N, p, c, ref) ==
    [removeNode(N, c) EXCEPT
        ![p].kids = InsertBeforeIn(@, c, IF ref = c
                                         THEN At(N[p].kids, IndexOf(N[p].kids, c))
                                         ELSE ref),
        ![c].parent = p]

RECURSIVE textContent(_, _)
RECURSIVE ConcatText(_, _, _)
ConcatText(N, seq, i) ==
    IF i > Len(seq) THEN ""
    ELSE textContent(N, seq[i]) \o ConcatText(N, seq, i + 1)

\* el.textContent: the text of the descendants, in tree order
textContent(N, n) ==
    IF IsText(N, n) THEN N[n].data ELSE ConcatText(N, N[n].kids, 1)

RECURSIVE Detach(_, _, _)
Detach(N, seq, i) ==
    IF i > Len(seq) THEN N
    ELSE Detach([N EXCEPT ![seq[i]].parent = Null], seq, i + 1)

\* el.textContent = s : every child is removed; a non-empty s becomes one
\* new text node
setTextContent(N, el, s) ==
    IF s = "" THEN [Detach(N, N[el].kids, 1) EXCEPT ![el].kids = <<>>]
    ELSE [Append(Detach(N, N[el].kids, 1),
                 [NewNode("#text") EXCEPT !.data = s, !.parent = el])
            EXCEPT ![el].kids = <<Len(N) + 1>>]

\* the value IDL attribute: a textarea that was never written shows its
\* text content (HTML: dirty value flag); an input shows its own value
valueOf(N, el) ==
    IF N[el].tag = "textarea" /\ ~N[el].dirty THEN textContent(N, el)
    ELSE N[el].value

setValue(N, el, v) == [N EXCEPT ![el].value = v, ![el].dirty = TRUE]

\* `key in element` for the properties the descriptions use
IsProperty(tag, key) ==
    \/ key = "value" /\ tag \in {"input", "textarea"}
    \/ key = "checked" /\ tag = "input"

-----------------------------------------------------------------------------
(* Descriptions: what createElements is called to build.  A description is *)
(* the call tree of h / tags.svg; building it creates the nodes.           *)

\* h(tag, props, ...kids): props is Object.entries(props), in order
H(tag, props, kids) ==
    [kind |-> "h", tag |-> tag, props |-> props, kids |-> kids, text |-> ""]

\* a string child of h
T(s) == [kind |-> "text", tag |-> "#text", props |-> <<>>, kids |-> <<>>, text |-> s]

\* tags.svg(props, svgString)
Svg(props) ==
    [kind |-> "svg", tag |-> "svg", props |-> props, kids |-> <<>>, text |-> ""]

\* an array in the result of createElements
Arr(kids) ==
    [kind |-> "array", tag |-> "#array", props |-> <<>>, kids |-> kids, text |-> ""]

\* a null or undefined entry in the result of createElements
NullItem ==
    [kind |-> "null", tag |-> "#null", props |-> <<>>, kids |-> <<>>, text |-> ""]

\* a primitive value that is no string: undefined, a boolean, a number
Val(type, literal) ==
    [kind |-> "value", tag |-> type, props |-> <<>>, kids |-> <<>>, text |-> literal]

\* key.startsWith('on')
IsEventKey(key) == key \in {"onClick", "onclick", "onInput"}

\* key.slice(2).toLowerCase()
EventName(key) == IF key = "onInput" THEN "input" ELSE "click"

NoEvents == [x \in {} |-> ""]

SetEvent(events, name, handler) ==
    [x \in (DOMAIN events) \cup {name} |-> IF x = name THEN handler ELSE events[x]]

addEventListener(N, el, name, handler) ==
    [N EXCEPT ![el].listeners = @ \cup {<<name, handler>>}]

removeEventListener(N, el, name, handler) ==
    [N EXCEPT ![el].listeners = @ \ {<<name, handler>>}]

\* element[key] = finalValue, for the properties of IsProperty
setProperty(N, el, key, v) ==
    IF key = "value" THEN setValue(N, el, v)
    ELSE [N EXCEPT ![el].checked = (v = "true")]

RECURSIVE hProps(_, _, _, _, _)
\* Object.entries(props).forEach of h: the nodes and the events object
hProps(N, el, props, i, events) ==
    IF i > Len(props) THEN [N |-> N, events |-> events]
    ELSE LET key == props[i][1]
             v   == props[i][2]
         IN  IF IsEventKey(key)
             THEN hProps(setAttribute(addEventListener(N, el, EventName(key), v),
                                      el, "data-has-event", "true"),
                         el, props, i + 1, SetEvent(events, EventName(key), v))
             ELSE IF IsProperty(N[el].tag, key)
             THEN hProps(setProperty(N, el, key, v), el, props, i + 1, events)
             ELSE hProps(setAttribute(N, el, key, v), el, props, i + 1, events)

\* child instanceof Node: not null, not an array, not a primitive value
IsNodeObject(N, x) ==
    x # Null /\ N[x].tag \notin {"#array", "#boolean", "#number", "#undefined"}

\* String(child) for a child that is no Node and no array
StringOf(N, x) ==
    IF x = Null THEN "null"
    ELSE IF N[x].tag = "#undefined" THEN "undefined"
    ELSE N[x].data

\* parent.appendChild(document.createTextNode(text))
appendText(N, el, text) ==
    [Append(N, [NewNode("#text") EXCEPT !.data = text, !.parent = el])
        EXCEPT ![el].kids = Append(@, Len(N) + 1)]

RECURSIVE appendChildren(_, _, _, _)
\* appendChildren of h: the entries of arrays at any depth in order
\* (flat(Infinity)); node children are appended (moved), every other
\* child becomes a text node of its string form
appendChildren(N, el, ids, i) ==
    IF i > Len(ids) THEN N
    ELSE IF ids[i] # Null /\ N[ids[i]].tag = "#array"
    THEN appendChildren(appendChildren(N, el, N[ids[i]].kids, 1), el, ids, i + 1)
    ELSE IF IsNodeObject(N, ids[i])
    THEN appendChildren(insertBefore(N, el, ids[i], Null), el, ids, i + 1)
    ELSE appendChildren(appendText(N, el, StringOf(N, ids[i])), el, ids, i + 1)

\* the entry of a WeakMap / Map
MapSet(f, k, v) == [x \in (DOMAIN f) \cup {k} |-> IF x = k THEN v ELSE f[x]]

\* the end of h: eventStore.set(element, events), then the children
hFinish(r, store, el, ids) ==
    [N     |-> appendChildren(r.N, el, ids, 1),
     store |-> MapSet(store, el, r.events),
     id    |-> el]

\* h, given the ids of the children already built
h(b, tag, props, ids) ==
    hFinish(hProps(Append(b.N, NewNode(tag)), Len(b.N) + 1, props, 1, NoEvents),
            b.store, Len(b.N) + 1, ids)

\* the attributes of the svg string the tests parse (part_000, line 6)
SvgAttrs == [x \in {"xmlns", "viewBox"} |->
                IF x = "xmlns" THEN "http://www.w3.org/2000/svg" ELSE "0 0 10 10"]

CircleAttrs == [x \in {"cx", "cy", "r"} |-> IF x = "r" THEN "4" ELSE "5"]

RECURSIVE applyProps(_, _, _, _)
\* applyProps of tags.svg: listeners are attached, no events object is kept
applyProps(N, el, props, i) ==
    IF i > Len(props) THEN N
    ELSE LET key == props[i][1]
             v   == props[i][2]
         IN  IF IsEventKey(key)
             THEN applyProps(setAttribute(addEventListener(N, el, EventName(key), v),
                                          el, "data-has-event", "true"),
                             el, props, i + 1)
             ELSE IF IsProperty(N[el].tag, key)
             THEN applyProps(setProperty(N, el, key, v), el, props, i + 1)
             ELSE applyProps(setAttribute(N, el, key, v), el, props, i + 1)

\* tags.svg: a deep clone of the parsed template (an svg with one circle),
\* then applyProps on the clone
svg(b, props) ==
    [N |-> applyProps(
              Append(Append(b.N, [NewNode("circle") EXCEPT !.parent = Len(b.N) + 2,
                                                           !.attrs = CircleAttrs]),
                     [NewNode("svg") EXCEPT !.kids = <<Len(b.N) + 1>>,
                                            !.attrs = SvgAttrs]),
              Len(b.N) + 2, props, 1),
     store |-> b.store,
     id |-> Len(b.N) + 2]

\* the markup strings given to tags.svg: svgString of the tests, and the
\* same picture with a rect
Markups == {"circle", "rect"}

ShapeAttrs(markup) ==
    IF markup = "circle" THEN CircleAttrs
    ELSE [x \in {"width", "height"} |-> "8"]

\* parser.parseFromString(svgString, 'image/svg+xml'): the shape, then
\* the document element, which is the last node of the result
parseFromString(N, markup) ==
    Append(Append(N, [NewNode(markup) EXCEPT !.parent = Len(N) + 2,
                                             !.attrs = ShapeAttrs(markup)]),
           [NewNode("svg") EXCEPT !.kids = <<Len(N) + 1>>, !.attrs = SvgAttrs])

\* template.cloneNode(true), for a template whose k children are leaves:
\* tags, attributes and text are copied, listeners are not; the copy of
\* the template is the last node of the result
cloneNode(N, t, k) ==
    N \o [i \in 1..k |-> [N[N[t].kids[i]] EXCEPT !.parent = Len(N) + k + 1,
                                                 !.listeners = {}]]
      \o << [N[t] EXCEPT !.kids = [i \in 1..k |-> Len(N) + i],
                         !.parent = Null, !.listeners = {}] >>

\* a function that applies the properties to the template itself and
\* returns it
ClonedId_Template(N, t) == t

\* const cloned = template.cloneNode(true), in the heap N after the call
ClonedId(N, t) == Len(N)

\* lines 298-300 for template t: clone, applyProps, return cloned
svgClone(c, f, props, markup, t, N) ==
    [N       |-> applyProps(N, ClonedId(N, t), props, 1),
     caches  |-> c.caches,
     parsed  |-> c.parsed,
     made    |-> Append(c.made, [node |-> ClonedId(N, t), fn |-> f, props |-> props,
                                 markup |-> markup, template |-> t])]

\* lines 291-296: the template is in svgCache, or markup is parsed and the
\* document element is cached
svgTemplate(c, f, markup) ==
    IF markup \in DOMAIN c.caches[f]
    THEN c
    ELSE [N      |-> parseFromString(c.N, markup),
          caches |-> [c.caches EXCEPT ![f] = MapSet(@, markup, Len(c.N) + 2)],
          parsed |-> Append(c.parsed, <<f, markup>>),
          made   |-> c.made]

\* the function tags.svg returned as f-th, called with (props, markup)
svgCall(c, f, props, markup) ==
    svgClone(svgTemplate(c, f, markup), f, props, markup,
             svgTemplate(c, f, markup).caches[f][markup],
             cloneNode(svgTemplate(c, f, markup).N,
                       svgTemplate(c, f, markup).caches[f][markup], 1))

RECURSIVE Build(_, _)
RECURSIVE BuildAll(_, _, _, _)
\* r is the result for ds[i]: go on with ds[i+1..]
BuildRest(r, ds, i, ids) == BuildAll(r, ds, i + 1, Append(ids, r.id))

\* the nodes for the descriptions ds[i..], left to right; ids collects them
BuildAll(b, ds, i, ids) ==
    IF i > Len(ds) THEN [N |-> b.N, store |-> b.store, ids |-> ids]
    ELSE BuildRest(Build(b, ds[i]), ds, i, ids)

\* the call of h for description d, its children built in r
hCall(r, d) == h(r, d.tag, d.props, r.ids)

\* the array object [ ...ids ]: its entries keep their own parent
ArrayOf(r) ==
    [N     |-> Append(r.N, [NewNode("#array") EXCEPT !.kids = r.ids]),
     store |-> r.store,
     id    |-> Len(r.N) + 1]

\* evaluate one description: arguments first (JavaScript call order)
Build(b, d) ==
    IF d.kind = "text"
    THEN [N     |-> Append(b.N, [NewNode("#text") EXCEPT !.data = d.text]),
          store |-> b.store,
          id    |-> Len(b.N) + 1]
    ELSE IF d.kind = "null" THEN [N |-> b.N, store |-> b.store, id |-> Null]
    ELSE IF d.kind = "value"
    THEN [N     |-> Append(b.N, [NewNode(d.tag) EXCEPT !.data = d.text]),
          store |-> b.store,
          id    |-> Len(b.N) + 1]
    ELSE IF d.kind = "array" THEN ArrayOf(BuildAll(b, d.kids, 1, <<>>))
    ELSE IF d.kind = "svg" THEN svg(b, d.props)
    ELSE hCall(BuildAll(b, d.kids, 1, <<>>), d)

-----------------------------------------------------------------------------
(* The reconciler.  A pass is computed on a record s of the mutable state: *)
(*   N, refs, used, store  the DOM, elementRefs, usedKeys, eventStore      *)
(*   trace, calls          history: the forEach iterations, and the number *)
(*                         of patchTree calls so far                       *)
(*   thrown                an exception is propagating                     *)
(* and, per patchTree call, its locals                                     *)
(*   cur, ret, existing, queue                                             *)
(*        currentKeys, retainedNoKey, existingChildren, childRecurseQueue  *)
(*   n    newChildren.length                                               *)

\* getKey, and the truthiness the code tests it for
getKey(N, el) == getAttribute(N, el, "data-key")

Truthy(key) == key # NoAttr /\ key # ""

\* elementRefs.get(key)
RefGet(refs, key) == IF key \in DOMAIN refs THEN refs[key] ELSE Null

\* attributesEqual without the comparison of the lengths (line 54)
attributesEqual_OneWay(N, oldEl, newEl) ==
    \A name \in DOMAIN N[oldEl].attrs :
        getAttribute(N, newEl, name) = N[oldEl].attrs[name]

attributesEqual(N, oldEl, newEl) ==
    /\ Cardinality(DOMAIN N[oldEl].attrs) = Cardinality(DOMAIN N[newEl].attrs)
    /\ \A name \in DOMAIN N[oldEl].attrs :
          getAttribute(N, newEl, name) = N[oldEl].attrs[name]

\* findReusableNoKey without the guards of lines 91 and 93: the node at the
\* index is the candidate whenever its tag fits
findReusableNoKey_TagOnly(N, existing, newEl, index) ==
    IF At(existing, index) = Null THEN Null
    ELSE IF N[At(existing, index)].tag # N[newEl].tag THEN Null
    ELSE At(existing, index)

findReusableNoKey(N, existing, newEl, index) ==
    LET candidate == At(existing, index)
    IN  IF candidate = Null THEN Null
        ELSE IF Truthy(getKey(N, candidate)) THEN Null
        ELSE IF N[candidate].tag # N[newEl].tag THEN Null
        ELSE IF ~attributesEqual(N, candidate, newEl) THEN Null
        ELSE candidate

\* input and textarea: value, checked (disabled is not used by the
\* descriptions of this model)
\* if (existingRef.value !== newEl.value) existingRef.value = newEl.value
SyncValue(N, existingRef, newEl) ==
    IF valueOf(N, existingRef) # valueOf(N, newEl)
    THEN setValue(N, existingRef, valueOf(N, newEl))
    ELSE N

\* if (existingRef.checked !== newEl.checked) existingRef.checked = newEl.checked
SyncChecked(N, existingRef, newEl) ==
    IF N[existingRef].checked # N[newEl].checked
    THEN [N EXCEPT ![existingRef].checked = N[newEl].checked]
    ELSE N

syncFormProps(N, existingRef, newEl) ==
    IF N[existingRef].tag \in {"input", "textarea"}
    THEN SyncChecked(SyncValue(N, existingRef, newEl), existingRef, newEl)
    ELSE N

\* eventStore.get(el) || {}
StoreGet(store, el) == IF el \in DOMAIN store THEN store[el] ELSE NoEvents

\* the listeners of el without every (name, handler) of events
RemoveAll(N, el, events) ==
    [N EXCEPT ![el].listeners = @ \ {<<name, events[name]>> : name \in DOMAIN events}]

\* the listeners of el with every (name, handler) of events
AddAll(N, el, events) ==
    [N EXCEPT ![el].listeners = @ \cup {<<name, events[name]>> : name \in DOMAIN events}]

replaceEvents(s, existingRef, newEl) ==
    [s EXCEPT !.N = AddAll(RemoveAll(s.N, existingRef, StoreGet(s.store, existingRef)),
                           existingRef, StoreGet(s.store, newEl)),
              !.store = MapSet(s.store, existingRef, StoreGet(s.store, newEl))]

hasMixedContent(N, el) ==
    /\ \E i \in 1..Len(N[el].kids) : IsElementNode(N, N[el].kids[i])
    /\ \E i \in 1..Len(N[el].kids) :
          IsText(N, N[el].kids[i]) /\ N[N[el].kids[i]].data # ""

\* shouldRecreate without the guard of line 141: the content of the
\* description is not looked at
shouldRecreate_NoMixedCheck(N, existingRef, newEl) ==
    IF existingRef # Null /\ hasMixedContent(N, existingRef) THEN TRUE
    ELSE IF existingRef = Null THEN TRUE
    ELSE IF N[existingRef].tag # N[newEl].tag THEN TRUE
    ELSE IF ~attributesEqual(N, existingRef, newEl) THEN TRUE
    ELSE FALSE

shouldRecreate(N, existingRef, newEl) ==
    IF hasMixedContent(N, newEl) THEN TRUE
    ELSE IF existingRef # Null /\ hasMixedContent(N, existingRef) THEN TRUE
    ELSE IF existingRef = Null THEN TRUE
    ELSE IF N[existingRef].tag # N[newEl].tag THEN TRUE
    ELSE IF ~attributesEqual(N, existingRef, newEl) THEN TRUE
    ELSE FALSE

\* the reason the recreate branch logs (console.log(reason, key))
Reason(N, existingRef, newEl) ==
    IF existingRef = Null THEN "new"
    ELSE IF N[existingRef].tag # N[newEl].tag THEN "tag"
    ELSE IF hasMixedContent(N, newEl) \/ hasMixedContent(N, existingRef) THEN "mixed"
    ELSE "attrs"

\* parent.insertBefore(el, target) or parent.appendChild(el); the DOM throws
\* HierarchyRequestError when el contains parent
Place(s, parent, el, target) ==
    IF CanInsert(s.N, parent, el)
    THEN [s EXCEPT !.N = insertBefore(s.N, parent, el, target)]
    ELSE [s EXCEPT !.thrown = TRUE]

\* parent.children[index] is the reference of the insertion
PlaceAt(s, parent, el, index) == Place(s, parent, el, At(children(s.N, parent), index))

\* shouldRemoveOld?.parentNode?.removeChild(shouldRemoveOld)
RemoveOld(s, shouldRemoveOld) ==
    IF shouldRemoveOld # Null THEN [s EXCEPT !.N = removeNode(s.N, shouldRemoveOld)]
    ELSE s

\* the registration at the end of insertNewElement (lines 162-169)
Register(s, newEl) ==
    IF s.thrown THEN s
    ELSE IF Truthy(getKey(s.N, newEl))
    THEN [s EXCEPT !.refs = MapSet(s.refs, getKey(s.N, newEl), newEl),
                   !.used = @ \cup {getKey(s.N, newEl)}]
    ELSE [s EXCEPT !.ret = @ \cup {newEl}]

insertNewElement(s, parent, newEl, index, shouldRemoveOld) ==
    Register(PlaceAt(RemoveOld(s, shouldRemoveOld), parent, newEl, index), newEl)

ensurePosition(s, parent, el, index) ==
    IF s.N[el].parent # parent \/ At(children(s.N, parent), index) # el
    THEN PlaceAt([s EXCEPT !.trace[Len(s.trace)].moved = TRUE], parent, el, index)
    ELSE s

\* retainedNoKey.add(existingRef) for a keyless reuse (lines 216-219)
Retain(s, existingRef, key) ==
    IF s.thrown \/ Truthy(key) THEN s ELSE [s EXCEPT !.ret = @ \cup {existingRef}]

\* syncFormProps and replaceEvents on the reused node (lines 221-223)
Sync(s, existingRef, newChild) ==
    IF s.thrown THEN s
    ELSE replaceEvents([s EXCEPT !.N = syncFormProps(s.N, existingRef, newChild)],
                       existingRef, newChild)

\* the text update, or the queued recursion (lines 225-233)
TextOrQueue(s, existingRef, newChild) ==
    IF s.thrown THEN s
    ELSE IF Len(children(s.N, existingRef)) = 0 /\ Len(children(s.N, newChild)) = 0
    THEN IF textContent(s.N, existingRef) # textContent(s.N, newChild)
         THEN [s EXCEPT !.N = setTextContent(s.N, existingRef,
                                             textContent(s.N, newChild)),
                        !.trace[Len(s.trace)].wrote = TRUE]
         ELSE s
    ELSE [s EXCEPT !.queue = Append(@, [parentEl |-> existingRef,
                                        newChild |-> newChild])]

\* the reuse branch of the forEach callback (lines 213-233)
Reuse(s, parent, existingRef, newChild, index, key) ==
    TextOrQueue(Sync(Retain(ensurePosition(s, parent, existingRef, index),
                            existingRef, key),
                     existingRef, newChild),
                existingRef, newChild)

\* childRecurseQueue.push({ parentEl: parent.children[index], newChild })
Enqueue(s, parent, newChild, index) ==
    IF s.thrown THEN s
    ELSE [s EXCEPT !.queue = Append(@, [parentEl |-> At(children(s.N, parent), index),
                                        newChild |-> newChild]),
                   !.trace[Len(s.trace)].landed =
                       (At(children(s.N, parent), index) = newChild)]

\* the recreate branch of the forEach callback (lines 199-211)
Recreate(s, parent, existingRef, newChild, index) ==
    Enqueue(insertNewElement(s, parent, newChild, index, existingRef),
            parent, newChild, index)

\* the history record of one forEach iteration
Entry(s, parent, newChild, index, existingRef, recreate) ==
    [call |-> s.calls, parent |-> parent, index |-> index,
     desc |-> newChild, ref |-> existingRef,
     at |-> At(s.existing, index),
     n |-> s.n, m |-> Len(s.existing),
     atLeaf |-> /\ At(s.existing, index) # Null
                /\ Len(children(s.N, At(s.existing, index))) = 0,
     refMixed |-> existingRef # Null /\ hasMixedContent(s.N, existingRef),
     descMixed |-> hasMixedContent(s.N, newChild),
     landed |-> FALSE,
     oldText |-> IF existingRef # Null THEN textContent(s.N, existingRef) ELSE "",
     wrote |-> FALSE, moved |-> FALSE,
     inPlace |-> existingRef # Null /\ At(children(s.N, parent), index) = existingRef,
     reason |-> IF recreate THEN Reason(s.N, existingRef, newChild) ELSE "reuse"]

\* the branch taken once the decision is known (lines 199, 213)
Branch(s, parent, newChild, index, existingRef, recreate) ==
    IF recreate THEN Recreate(s, parent, existingRef, newChild, index)
    ELSE Reuse(s, parent, existingRef, newChild, index, getKey(s.N, newChild))

\* the decision for the candidate existingRef (line 199)
Decide(s, parent, newChild, index, existingRef) ==
    Branch([s EXCEPT !.trace = Append(@, Entry(s, parent, newChild, index, existingRef,
                                               shouldRecreate(s.N, existingRef, newChild)))],
           parent, newChild, index, existingRef,
           shouldRecreate(s.N, existingRef, newChild))

\* currentKeys.add(key); usedKeys.add(key) (lines 189-193)
NoteKey(s, key) ==
    IF Truthy(key) THEN [s EXCEPT !.cur = @ \cup {key}, !.used = @ \cup {key}] ELSE s

\* key ? elementRefs.get(key) : findReusableNoKey(newChild, index) (line 196)
ExistingRef(s, newChild, index) ==
    IF Truthy(getKey(s.N, newChild)) THEN RefGet(s.refs, getKey(s.N, newChild))
    ELSE findReusableNoKey(s.N, s.existing, newChild, index)

\* x is a DOM node: neither null nor an array
IsNode(N, x) == x # Null /\ N[x].tag # "#array"

\* one call of the newChildren.forEach callback (lines 188-234); getKey
\* throws a TypeError for an entry that has no getAttribute
PatchChild(s, parent, newChild, index) ==
    IF ~IsNode(s.N, newChild) THEN [s EXCEPT !.thrown = TRUE]
    ELSE Decide(NoteKey(s, getKey(s.N, newChild)), parent, newChild, index,
                ExistingRef(s, newChild, index))

RECURSIVE ForEachChild(_, _, _, _)
ForEachChild(s, parent, newChildren, index) ==
    IF s.thrown \/ index >= Len(newChildren) THEN s
    ELSE ForEachChild(PatchChild(s, parent, At(newChildren, index), index),
                      parent, newChildren, index + 1)

RECURSIVE Cleanup(_, _, _)
\* the removal loop over Array.from(parent.children) (lines 242-252)
Cleanup(s, snapshot, i) ==
    IF i > Len(snapshot) THEN s
    ELSE IF Truthy(getKey(s.N, snapshot[i])) /\ getKey(s.N, snapshot[i]) \notin s.cur
    THEN Cleanup([s EXCEPT !.N = removeNode(s.N, snapshot[i])], snapshot, i + 1)
    ELSE IF ~Truthy(getKey(s.N, snapshot[i])) /\ snapshot[i] \notin s.ret
    THEN Cleanup([s EXCEPT !.N = removeNode(s.N, snapshot[i])], snapshot, i + 1)
    ELSE Cleanup(s, snapshot, i + 1)

\* the locals of a patchTree call (lines 82-85, 185)
Enter(s, parent, newChildren) ==
    [s EXCEPT !.cur = {}, !.ret = {}, !.queue = <<>>,
              !.existing = children(s.N, parent),
              !.calls = @ + 1, !.n = Len(newChildren)]

\* back in the caller: its locals are its own again
Return(r, s) ==
    [r EXCEPT !.cur = s.cur, !.ret = s.ret, !.n = s.n,
              !.existing = s.existing, !.queue = s.queue]

\* the removal loop, unless an exception is propagating
Finish(s, parent) ==
    IF s.thrown THEN s ELSE Cleanup(s, children(s.N, parent), 1)

RECURSIVE patchTree(_, _, _)
RECURSIVE RunQueue(_, _)
\* childRecurseQueue.forEach: the children are read when the entry runs;
\* an entry whose parentEl is undefined makes patchTree throw a TypeError
RunQueue(s, i) ==
    IF s.thrown \/ i > Len(s.queue) THEN s
    ELSE IF s.queue[i].parentEl = Null THEN [s EXCEPT !.thrown = TRUE]
    ELSE RunQueue(Return(patchTree(s, s.queue[i].parentEl,
                                   children(s.N, s.queue[i].newChild)), s),
                  i + 1)

patchTree(s, parent, newChildren) ==
    Finish(RunQueue(ForEachChild(Enter(s, parent, newChildren), parent, newChildren, 0),
                    1),
           parent)

\* render without the loop of lines 258-262: no entry is ever deleted
DropUnused_KeepsAll(refs, used) == refs

\* the loop that deletes the unused keys of elementRefs (lines 258-262)
DropUnused(refs, used) == [k \in (DOMAIN refs) \cap used |-> refs[k]]

\* the function render returns, called with arguments for which
\* createElements builds the descriptions ds
\* what an invocation leaves behind; an exception skips the last loop
Outcome(s, b) ==
    [N |-> s.N, store |-> s.store, thrown |-> s.thrown, trace |-> s.trace,
     refs |-> IF s.thrown THEN s.refs ELSE DropUnused(s.refs, s.used),
     built |-> b.N, ids |-> b.ids]

\* patchTree(container, newElements) on the nodes b that createElements built
Patch(b, refs) ==
    Outcome(patchTree([N |-> b.N, refs |-> refs, used |-> {}, store |-> b.store,
                       trace |-> <<>>, calls |-> 0, thrown |-> FALSE,
                       cur |-> {}, ret |-> {}, existing |-> <<>>, queue |-> <<>>,
                       n |-> 0],
                      Container, b.ids),
            b)

Invoke(N, refs, store, ds) ==
    Patch(BuildAll([N |-> N, store |-> store], ds, 1, <<>>), refs)

\* the state of the invoker when it calls patchTree (lines 77, 255)
Called(b, refs) ==
    [N |-> b.N, refs |-> refs, used |-> {}, store |-> b.store,
     trace |-> <<>>, calls |-> 0, thrown |-> FALSE,
     cur |-> {}, ret |-> {}, existing |-> <<>>, queue |-> <<>>, n |-> 0]

\* the invoker has called createElements, which built b for ds, and
\* enters patchTree(container, newElements)
Begin(b, ds) ==
    [active |-> TRUE, ds |-> ds, b |-> b,
     s |-> Enter(Called(b, elementRefs), Container, b.ids)]

\* a queue entry is run: patchTree(parentEl, ...) is entered, or throws
\* a TypeError when parentEl is undefined
Recurse(s, entry) ==
    IF entry.parentEl = Null THEN [s EXCEPT !.thrown = TRUE]
    ELSE Enter(s, entry.parentEl, children(s.N, entry.newChild))

\* a queue loop that runs its first entry again after each call
AfterCall_Again(qi) == qi

\* childRecurseQueue.forEach goes on to the next entry
AfterCall(qi) == qi + 1

\* the invoker when createElements returns null or undefined:
\* newChildren.forEach throws a TypeError (line 188) before any change
InvokeNull(N, refs, store) ==
    [N |-> N, store |-> store, thrown |-> TRUE, trace |-> <<>>,
     refs |-> refs, built |-> N, ids |-> <<>>]

\* an invoker that runs the loop of lines 258-262 although createElements
\* threw: usedKeys is empty, every entry is deleted
Failed_ClearsRefs(b, refs) ==
    [N |-> b.N, store |-> b.store, thrown |-> TRUE, trace |-> <<>>,
     refs |-> DropUnused(refs, {}), built |-> b.N, ids |-> <<>>]

\* the invoker without the call of patchTree: the exception of
\* createElements leaves it at line 76, with the nodes b built so far
Failed(b, refs) ==
    [N |-> b.N, store |-> b.store, thrown |-> TRUE, trace |-> <<>>,
     refs |-> refs, built |-> b.N, ids |-> <<>>]

\* the invoker when createElements throws after it has built ds
InvokeThrows(N, refs, store, ds) ==
    Failed(BuildAll([N |-> N, store |-> store], ds, 1, <<>>), refs)

-----------------------------------------------------------------------------
(* What the application renders *)

\* h('div', {'data-key': k, class: c}, ...kids)
Keyed(k, c, kids) == H("div", << <<"data-key", k>>, <<"class", c>> >>, kids)

\* h(tag, {class: c}, ...kids)
Plain(tag, c, kids) == H(tag, << <<"class", c>> >>, kids)

\* keyed leaves: one, or two in either order
KeyedLists ==
    {<< Keyed("a", c, <<T(t)>>) >> : c \in {"one", "two"}, t \in {"A", "B"}}
    \cup {<< Keyed("a", "one", <<T("A")>>), Keyed("b", "one", <<T("B")>>) >>,
          << Keyed("b", "one", <<T("B")>>), Keyed("a", "one", <<T("A")>>) >>}

\* keyless leaves by position, alone or before a keyed node
PlainLists ==
    {<< Plain("span", "one", <<T("A")>>), Plain("span", "one", <<T(t)>>) >> :
         t \in {"B", "X"}}
    \cup {<< Plain(tag, "one", <<T("A")>>) >> : tag \in {"span", "div"}}
    \cup {<< Plain("span", "two", <<T("A")>>), Keyed("a", "one", <<T("A")>>) >>}

\* a keyed node whose content is an element, or text mixed with an element
ContentLists ==
    {<< Keyed("a", "one", <<Plain("span", "one", <<T("x")>>)>>) >>,
     << Keyed("a", "one", <<T("A"), Plain("span", "one", <<T("x")>>)>>) >>}

\* keyed children under keyed parents, and one key under two parents
NestedLists ==
    {<< Keyed("p", c, <<Keyed("c", "one", <<T("A")>>)>>) >> : c \in {"one", "two"}}
    \cup {<< Keyed("p", "one", <<Keyed("c", "one", <<T("A")>>)>>),
             Keyed("q", "one", <<Keyed("c", "one", <<T("B")>>)>>) >>,
          << Keyed("a", "one", <<T("A")>>),
             Plain("div", "one", <<Keyed("a", "two", <<T("A")>>)>>) >>,
          << Keyed("p", "one", <<Plain("span", "one", <<T("A")>>)>>),
             Plain("div", "one",
                   <<Keyed("p", "one", <<Plain("span", "one", <<T("B")>>)>>)>>) >>}

\* two siblings with one key: outside the contract, but the code accepts it
DuplicateKeyLists ==
    {<< Keyed("a", "one", <<T("A")>>), Keyed("a", c, <<T("B")>>) >> :
         c \in {"one", "two"}}

\* a keyed button or a keyed svg icon, with a click handler or none
EventLists ==
    {<< H("button", << <<"data-key", "btn">>, <<"onClick", hd>> >>, <<T("click")>>) >> :
         hd \in {"H1", "H2"}}
    \cup {<< H("button", << <<"data-key", "btn">> >>, <<T("click")>>) >>}
    \cup {<< Svg(<< <<"data-key", "icon">>, <<"onClick", hd>> >>) >> : hd \in {"H1", "H2"}}
    \cup {<< Svg(<< <<"data-key", "icon">> >>) >>}

\* h(tag, {'data-key': k, class: 'one'}, ...kids)
Tagged(tag, k, kids) == H(tag, << <<"data-key", k>>, <<"class", "one">> >>, kids)

\* the keyed leaf h('div', {'data-key': k, class: 'one'}, k)
Leaf(k) == Tagged("div", k, <<T(k)>>)

\* keyed siblings in every order, a key whose tag changes, and a key that
\* occurs again under one of the siblings
SiblingLists ==
    {<< Leaf(o[1]), Leaf(o[2]), Leaf(o[3]) >> :
         o \in {p \in {"a", "b", "c"} \X {"a", "b", "c"} \X {"a", "b", "c"} :
                   p[1] # p[2] /\ p[1] # p[3] /\ p[2] # p[3]}}
    \cup {<< Tagged(tag, "a", <<T("a")>>) >> : tag \in {"div", "span"}}
    \cup {<< Leaf("b"), Leaf("a"), Tagged("div", "c", <<Leaf("a")>>) >>,
          << Tagged("span", "a", <<Leaf("a")>>) >>}

\* what a builder returns: flat lists, arrays in arrays, null entries
BuilderLists ==
    {<<>>, << Leaf("a") >>, << Leaf("a"), Leaf("b") >>, << Leaf("b"), Leaf("a") >>,
     << Arr(<< Leaf("a") >>), Leaf("b") >>,
     << Leaf("a"), Arr(<< Arr(<< Leaf("b") >>) >>) >>,
     << Leaf("a"), NullItem >>, << NullItem, Leaf("b") >>}

\* a keyed text input, a keyed checkbox, a keyed textarea
FormLists ==
    {<< H("input", << <<"data-key", "in">>, <<"value", v>> >>, <<>>) >> :
         v \in {"foo", "bar"}}
    \cup {<< H("input", << <<"data-key", "cb">>, <<"type", "checkbox">>,
                            <<"checked", c>> >>, <<>>) >> : c \in {"true", "false"}}
    \cup {<< H("textarea", << <<"data-key", "ta">> >>, <<T(t)>>) >> : t \in {"A", "B"}}
    \cup {<< H("textarea", << <<"data-key", "ta">>, <<"value", "A">> >>, <<T("B")>>) >>}

\* what the user types into a field
UserValues == {"typed"}

Descriptions == {<<>>} \cup KeyedLists \cup PlainLists \cup ContentLists \cup NestedLists

\* a keyed parent p whose class, tag or content changes over keyed
\* children that stay as they are, change places, or have mixed content
ParentLists ==
    {<< H(tag, << <<"data-key", "p">>, <<"class", c>> >>, <<Leaf("a"), Leaf("b")>>) >> :
         tag \in {"div", "span"}, c \in {"one", "two"}}
    \cup {<< Keyed("p", c, <<Leaf("b"), Leaf("a")>>) >> : c \in {"one", "two"}}
    \cup {<< Keyed("p", "one", <<T("P"), Leaf("a")>>) >>}
    \cup {<< Keyed("p", c, <<Tagged("div", "m", <<T("M"), Plain("span", "one", <<T("x")>>)>>)>>) >> :
              c \in {"one", "two"}}

\* children of h that are no nodes: null, undefined, booleans, numbers,
\* and arrays of children
ChildLists ==
    {<< Tagged("div", "a", kids) >> :
         kids \in {<< T("A"), Val("#number", "1") >>,
                   << Arr(<< Leaf("b"), Arr(<< T("A"), Leaf("c") >>) >>) >>,
                   << Arr(<<>>), Leaf("b") >>,
                   << NullItem, Leaf("b") >>,
                   << Val("#boolean", "false"), T("A") >>,
                   << T("A"), Val("#boolean", "true") >>,
                   << Val("#undefined", ""), Leaf("b") >>}}

\* trees of two and three levels, a key under two parents, a null entry
StepLists ==
    {<<>>,
     << Keyed("a", "one", <<Plain("span", "one", <<T("x")>>)>>) >>,
     << Plain("div", "one", <<Plain("div", "one", <<Plain("span", "one", <<T("A")>>)>>)>>) >>,
     << Keyed("p", "one", <<Keyed("c", "one", <<T("A")>>)>>),
        Keyed("q", "one", <<Keyed("c", "one", <<T("B")>>)>>) >>,
     << Keyed("p", "one", <<Plain("span", "one", <<T("A")>>)>>),
        Plain("div", "one",
              <<Keyed("p", "one", <<Plain("span", "one", <<T("B")>>)>>)>>) >>,
     << Leaf("a"), NullItem >>}

-----------------------------------------------------------------------------
(* The state machine *)

NoDispatch == [node |-> Null, event |-> "", handlers |-> {}]

\* no invocation is in progress
Idle ==
    [active |-> FALSE, ds |-> <<>>,
     b |-> [N |-> <<>>, store |-> <<>>, ids |-> <<>>],
     s |-> [thrown |-> FALSE]]

\* the functions the application subscribes
Fns == {"f", "g"}

\* createStore(initial)
Initial == 1

\* no call of the store has been made
NoSubscriptions ==
    [made |-> <<>>, received |-> [fn \in Fns |-> [last |-> Null, n |-> 0]],
     updates |-> 0, unsubscribes |-> 0, nested |-> FALSE]

\* the element h returns when childFn gives no children: no child nodes, no
\* key cache
NewEl ==
    [childNodes |-> <<>>, keyCache |-> [k \in {} |-> Null], made |-> <<>>,
     renders |-> 0, out |-> <<>>, before |-> [made |-> 0, out |-> <<>>]]

\* render(options) has returned its function: an empty container, empty
\* maps
NewRenderer ==
    [children |-> <<>>, elementMap |-> [k \in {} |-> Null],
     valueMap |-> [k \in {} |-> <<>>], elements |-> <<>>, items |-> <<>>,
     calls |-> 0, created |-> <<>>,
     before |-> [children |-> <<>>, elementMap |-> [k \in {} |-> Null],
                 items |-> <<>>, elements |-> 0]]

\* no call of the invoker has been made
NoCalls == [building |-> <<>>, count |-> 0, outer |-> 0, patching |-> 0, log |-> <<>>]

Init ==
    /\ nodes = <<NewNode("div")>>
    /\ elementRefs = [k \in {} |-> Null]
    /\ eventStore = [n \in {} |-> NoEvents]
    /\ thrown = FALSE
    /\ passes = 0
    /\ newElements = <<>>
    /\ built = <<NewNode("div")>>
    /\ before = [nodes |-> <<NewNode("div")>>, refs |-> [k \in {} |-> Null],
                 store |-> [n \in {} |-> NoEvents],
                 built |-> <<NewNode("div")>>, ids |-> <<>>, thrown |-> FALSE]
    /\ matches = <<>>
    /\ fired = NoDispatch
    /\ builder = "none"
    /\ run = Idle
    /\ frames = <<>>
    /\ steps = 0
    /\ tagsSvg = [caches |-> <<>>, parsed |-> <<>>, made |-> <<>>]
    /\ invoker = NoCalls
    /\ state = Initial
    /\ subs = <<>>
    /\ callStack = <<>>
    /\ subscriptions = NoSubscriptions
    /\ element = NewEl
    /\ renderer = NewRenderer

\* the program state after an invocation with outcome r
Becomes(r) ==
    /\ nodes' = r.N
    /\ elementRefs' = r.refs
    /\ eventStore' = r.store
    /\ thrown' = r.thrown
    /\ newElements' = r.ids
    /\ built' = r.built
    /\ matches' = r.trace

\* the invoker is left with outcome r, createElements having ended as `how`
Leaves(r, how) ==
    /\ Becomes(r)
    /\ before' = [nodes |-> nodes, refs |-> elementRefs, store |-> eventStore,
                  built |-> built, ids |-> newElements, thrown |-> thrown]
    /\ passes' = passes + 1
    /\ fired' = NoDispatch
    /\ builder' = how
    /\ UNCHANGED <<tagsSvg, invoker, others>>

\* an invocation with outcome r, taken as one step
Pass(r, how) ==
    /\ passes < MaxPasses
    /\ Leaves(r, how)
    /\ UNCHANGED <<run, frames, steps>>

\* one invocation of the function render returned
Render(ds) == Pass(Invoke(nodes, elementRefs, eventStore, ds), "returned")

\* an invocation for which createElements returns null or undefined
RenderNull == Pass(InvokeNull(nodes, elementRefs, eventStore), "null")

\* an invocation in which createElements throws after it has built ds
RenderThrows(ds) == Pass(InvokeThrows(nodes, elementRefs, eventStore, ds), "throws")

RECURSIVE Descendants(_, _)
\* n and every node under it
Descendants(N, n) ==
    {n} \cup UNION {Descendants(N, N[n].kids[i]) : i \in 1..Len(N[n].kids)}

\* the elements attached under the container
Live(N) == {n \in Descendants(N, Container) : IsElementNode(N, n)} \ {Container}

Next == \E ds \in Descriptions : Render(ds)

Spec == Init /\ [][Next]_vars

\* node.dispatchEvent(new Event(event)): the listeners of that type run,
\* each once (the event does not bubble)
Dispatch(n, event) ==
    /\ passes >= 1
    /\ n \in Live(nodes)
    /\ fired' = [node |-> n, event |-> event,
                 handlers |-> {l[2] : l \in {x \in nodes[n].listeners : x[1] = event}}]
    /\ fired' # fired
    /\ UNCHANGED <<nodes, elementRefs, eventStore, thrown, passes, newElements,
                   built, before, matches, builder, run, frames, steps, tagsSvg,
                   invoker, others>>

\* the user edits a field: the platform sets its value and fires "input"
UserInput(n, v) ==
    /\ passes >= 1
    /\ n \in Live(nodes)
    /\ nodes[n].tag \in {"input", "textarea"}
    /\ valueOf(nodes, n) # v
    /\ nodes' = setValue(nodes, n, v)
    /\ fired' = [node |-> n, event |-> "input",
                 handlers |-> {l[2] : l \in {x \in nodes[n].listeners : x[1] = "input"}}]
    /\ UNCHANGED <<elementRefs, eventStore, thrown, passes, newElements,
                   built, before, matches, builder, run, frames, steps, tagsSvg,
                   invoker, others>>

NextDup == \E ds \in Descriptions \cup DuplicateKeyLists : Render(ds)

\* the same program, also given sibling lists that repeat a key
SpecDup == Init /\ [][NextDup]_vars

NextEvents ==
    \/ \E ds \in {<<>>} \cup EventLists : Render(ds)
    \/ \E n \in DOMAIN nodes : Dispatch(n, "click")

\* an application of buttons and icons, and a user who clicks them
SpecEvents == Init /\ [][NextEvents]_vars

NextForm ==
    \/ \E ds \in {<<>>} \cup FormLists : Render(ds)
    \/ \E n \in DOMAIN nodes : \E v \in UserValues : UserInput(n, v)

\* an application of form fields, and a user who types into them
SpecForm == Init /\ [][NextForm]_vars

NextKeyed == \E ds \in {<<>>} \cup SiblingLists : Render(ds)

\* an application that reorders keyed siblings and changes their tags
SpecKeyed == Init /\ [][NextKeyed]_vars

\* a patchTree call in progress: its arguments, the position of its two
\* loops, and the locals of its caller
Frame(parent, newChildren, caller) ==
    [parent |-> parent, newChildren |-> newChildren, index |-> 0, qi |-> 1,
     saved |-> [cur |-> caller.cur, ret |-> caller.ret, n |-> caller.n,
                existing |-> caller.existing, queue |-> caller.queue]]

Top == frames[Len(frames)]

\* the statement to execute belongs to a patchTree call
Stepping ==
    /\ run.active /\ ~run.s.thrown
    /\ frames # <<>>
    /\ steps < MaxSteps

\* a call of the invoker begins (line 75): it is numbered, and its builder
\* starts to run; a call made while no builder runs is an outermost one
Calling(v) ==
    [v EXCEPT !.building = Append(@, v.count + 1),
              !.count = @ + 1,
              !.outer = IF v.building = <<>> THEN v.count + 1 ELSE @]

\* the builder that runs returns (line 76): its call goes on to patchTree
Patching(v) ==
    [v EXCEPT !.building = SubSeq(@, 1, Len(@) - 1),
              !.patching = v.building[Len(v.building)]]

\* a statement of patchTree changes the tree: the call executing it is noted
\* when it is not the one that made the last change
Logged(v) ==
    IF v.log # <<>> /\ v.log[Len(v.log)] = v.patching
    THEN v
    ELSE [v EXCEPT !.log = Append(@, v.patching)]

\* createElements has returned ds: the nodes are built and patchTree is
\* entered on the container (lines 76-77, 255)
Entered(ds) ==
    /\ run' = Begin(BuildAll([N |-> nodes, store |-> eventStore], ds, 1, <<>>), ds)
    /\ frames' = << Frame(Container, run'.b.ids, Called(run'.b, elementRefs)) >>
    /\ steps' = 0
    /\ UNCHANGED <<nodes, elementRefs, eventStore, thrown, passes, newElements,
                   built, before, matches, fired, builder, tagsSvg, others>>

\* the invoker is called: createElements builds ds, patchTree is entered
Start(ds) ==
    /\ ~run.active
    /\ invoker.building = <<>>
    /\ passes < MaxStepPasses
    /\ Entered(ds)
    /\ invoker' = Patching(Calling(invoker))

\* one iteration of newChildren.forEach (lines 188-234)
StepChild ==
    /\ Stepping
    /\ Top.index < Len(Top.newChildren)
    /\ steps' = steps + 1
    /\ run' = [run EXCEPT !.s = PatchChild(@, Top.parent,
                                           At(Top.newChildren, Top.index), Top.index)]
    /\ frames' = [frames EXCEPT ![Len(frames)].index = @ + 1]
    /\ UNCHANGED <<nodes, elementRefs, eventStore, thrown, passes, newElements,
                   built, before, matches, fired, builder, tagsSvg, others>>
    /\ invoker' = Logged(invoker)

\* one iteration of childRecurseQueue.forEach (lines 237-239): the call
\* patchTree(parentEl, Array.from(newChild.children)) is entered
StepQueue ==
    /\ Stepping
    /\ Top.index >= Len(Top.newChildren)
    /\ Top.qi <= Len(run.s.queue)
    /\ steps' = steps + 1
    /\ run' = [run EXCEPT !.s = Recurse(@, @.queue[Top.qi])]
    /\ frames' = IF run.s.queue[Top.qi].parentEl = Null THEN frames
                  ELSE Append([frames EXCEPT ![Len(frames)].qi = AfterCall(@)],
                              Frame(run.s.queue[Top.qi].parentEl,
                                    children(run.s.N, run.s.queue[Top.qi].newChild),
                                    run.s))
    /\ UNCHANGED <<nodes, elementRefs, eventStore, thrown, passes, newElements,
                   built, before, matches, fired, builder, tagsSvg, others>>
    /\ invoker' = Logged(invoker)

\* the removal loop (lines 242-252), and the return to the caller
StepCleanup ==
    /\ Stepping
    /\ Top.index >= Len(Top.newChildren)
    /\ Top.qi > Len(run.s.queue)
    /\ steps' = steps + 1
    /\ run' = [run EXCEPT !.s = Return(Finish(@, Top.parent), Top.saved)]
    /\ frames' = SubSeq(frames, 1, Len(frames) - 1)
    /\ UNCHANGED <<nodes, elementRefs, eventStore, thrown, passes, newElements,
                   built, before, matches, fired, builder, tagsSvg, others>>
    /\ invoker' = Logged(invoker)

\* the invoker is left: patchTree returned and the unused keys are deleted
\* (lines 258-262), or an exception unwinds every call
Commit ==
    /\ run.active
    /\ frames = <<>> \/ run.s.thrown
    /\ steps' = steps + 1
    /\ Leaves(Outcome(run.s, run.b), "returned")
    /\ run' = [run EXCEPT !.active = FALSE]
    /\ frames' = <<>>

\* a started invocation executes its next statement: every step of an
\* invocation counts one
Tick ==
    /\ run.active
    /\ frames = <<>> \/ run.s.thrown \/ steps < MaxSteps
    /\ steps' = steps + 1

NextSteps ==
    \/ \E ds \in StepLists : Start(ds)
    \/ StepChild
    \/ StepQueue
    \/ StepCleanup
    \/ Commit

\* the invoker executed statement by statement; the script is run to
\* completion by the engine, so a started invocation keeps taking steps
SpecSteps == Init /\ [][NextSteps]_vars /\ WF_steps(Tick)

\* the properties given to tags.svg
SvgProps ==
    {<<>>, << <<"width", "10">> >>, << <<"width", "20">> >>,
     << <<"width", "10">>, <<"onClick", "H1">> >>}

\* the expression tags.svg is evaluated: the get trap makes a new svgCache
\* and returns a new function that closes over it (lines 270-272, 289)
TagsSvg ==
    /\ Len(tagsSvg.caches) < MaxSvgFunctions
    /\ tagsSvg' = [tagsSvg EXCEPT !.caches = Append(@, [m \in {} |-> Null])]
    /\ UNCHANGED <<nodes, elementRefs, eventStore, thrown, passes, newElements,
                   built, before, matches, fired, builder, run, frames, steps,
                   invoker, others>>

\* the state after the call r
SvgReturns(r) ==
    /\ nodes' = r.N
    /\ tagsSvg' = [caches |-> r.caches, parsed |-> r.parsed, made |-> r.made]
    /\ UNCHANGED <<elementRefs, eventStore, thrown, passes, newElements,
                   built, before, matches, fired, builder, run, frames, steps,
                   invoker, others>>

\* a function tags.svg returned is called
CallSvg(f, props, markup) ==
    /\ Len(tagsSvg.made) < MaxSvgCalls
    /\ SvgReturns(svgCall([N |-> nodes, caches |-> tagsSvg.caches,
                           parsed |-> tagsSvg.parsed, made |-> tagsSvg.made],
                          f, props, markup))

NextSvg ==
    \/ TagsSvg
    \/ \E f \in 1..Len(tagsSvg.caches) : \E props \in SvgProps : \E markup \in Markups :
          CallSvg(f, props, markup)

\* an application that makes icons with tags.svg, with the function of
\* one evaluation of tags.svg or of several
SpecSvg == Init /\ [][NextSvg]_vars

NextChildren ==
    \/ \E ds \in ChildLists : Start(ds)
    \/ StepChild
    \/ StepQueue
    \/ StepCleanup
    \/ Commit

\* an application whose calls of h pass children that are no nodes
SpecChildren == Init /\ [][NextChildren]_vars /\ WF_steps(Tick)

NextParents == \E ds \in {<<>>} \cup ParentLists : Render(ds)

\* an application that changes a keyed parent over its keyed children
SpecParents == Init /\ [][NextParents]_vars

\* the descriptions of an application whose builder calls the invoker
NestLists ==
    {<<>>,
     << Leaf("a"), Leaf("b") >>,
     << Leaf("b") >>,
     << Keyed("p", "one", <<Keyed("c", "one", <<T("A")>>)>>) >>,
     << Keyed("p", "two", <<Keyed("c", "one", <<T("A")>>)>>) >>}

\* the invoker is called (line 75) by the application, or by the builder of
\* a call that has not yet returned from createElements (line 76): no
\* other code of the application runs inside the invoker
CallInvoker ==
    /\ ~run.active
    /\ invoker.count < MaxStepPasses
    /\ Len(invoker.building) < MaxNesting
    /\ invoker' = Calling(invoker)
    /\ UNCHANGED <<nodes, elementRefs, eventStore, thrown, passes, newElements,
                   built, before, matches, fired, builder, run, frames, steps,
                   tagsSvg, others>>

\* the builder that runs returns ds (line 76), and its call enters patchTree
BuilderReturns(ds) ==
    /\ ~run.active
    /\ invoker.building # <<>>
    /\ Entered(ds)
    /\ invoker' = Patching(invoker)

NextNested ==
    \/ CallInvoker
    \/ \E ds \in NestLists : BuilderReturns(ds)
    \/ StepChild
    \/ StepQueue
    \/ StepCleanup
    \/ Commit

\* an application whose builders call the invoker of their own container
SpecNested == Init /\ [][NextNested]_vars /\ WF_steps(Tick)

-----------------------------------------------------------------------------
(* minui: createStore *)

\* the place of a deleted entry of the Set: an iteration in progress
\* passes over it
Deleted == "deleted"

\* subs.has(fn)
SetHas(S, fn) == \E i \in 1..Len(S) : S[i] = fn

\* the entries of the Set
Members(S) == {S[i] : i \in 1..Len(S)} \ {Deleted}

\* subs.add(fn): a new entry is the last one in iteration order
SetAdd(S, fn) == IF SetHas(S, fn) THEN S ELSE Append(S, fn)

\* subs.delete(fn)
SetDelete(S, fn) == [i \in 1..Len(S) |-> IF S[i] = fn THEN Deleted ELSE S[i]]

TopCall == callStack[Len(callStack)]

\* code of the application runs: at top level, or in a subscriber
UserCode == IF callStack = <<>> THEN TRUE ELSE TopCall.op = "callback"

\* a call in progress: update in its forEach (i is the next entry), or a
\* subscriber fn called with value; pending are the calls of subscribe not
\* yet undone when update began, got the subscribers it has called
Call(op, fn, value, pending) ==
    [op |-> op, fn |-> fn, i |-> 1, value |-> value, pending |-> pending, got |-> {}]

Handles == 1..Len(subscriptions.made)

\* the calls of subscribe whose unsubscribe function has not been called
Outstanding == {x \in Handles : ~subscriptions.made[x].called}

\* history: fn is called with v; the calls of subscribe of fn that were
\* undone before count it
Receives(sub, fn, v) ==
    [sub EXCEPT
        !.received[fn] = [last |-> v, n |-> @.n + 1],
        !.made = [x \in DOMAIN @ |->
                     IF @[x].fn = fn /\ @[x].called
                     THEN [@[x] EXCEPT !.after = @ + 1]
                     ELSE @[x]]]

\* the argument of the callback of forEach (line 72): the variable state,
\* read when the subscriber is called
Delivers_Captured(c) == c.value
Delivers(c) == state

\* store.update(fn) with fn = s => s + 1, up to the forEach (lines 70-72)
Update ==
    /\ UserCode
    /\ subscriptions.updates < MaxUpdates
    /\ state' = state + 1
    /\ callStack' = Append(callStack, Call("update", "", state', Outstanding))
    /\ subscriptions' = [subscriptions EXCEPT !.updates = @ + 1,
                                              !.nested = @ \/ callStack # <<>>]
    /\ UNCHANGED <<subs, rendering, element, renderer>>

\* the forEach of update reaches its next entry (line 72)
ForEach ==
    /\ callStack # <<>>
    /\ TopCall.op = "update"
    /\ TopCall.i <= Len(subs)
    /\ IF subs[TopCall.i] = Deleted
       THEN /\ callStack' = [callStack EXCEPT ![Len(callStack)].i = @ + 1]
            /\ UNCHANGED subscriptions
       ELSE /\ callStack' =
                  Append([callStack EXCEPT ![Len(callStack)].i = @ + 1,
                                           ![Len(callStack)].got = @ \cup {subs[TopCall.i]}],
                         Call("callback", subs[TopCall.i], Delivers(TopCall), {}))
            /\ subscriptions' = Receives(subscriptions, subs[TopCall.i], Delivers(TopCall))
    /\ UNCHANGED <<state, subs, rendering, element, renderer>>

\* the forEach is over and update returns
UpdateReturns ==
    /\ callStack # <<>>
    /\ TopCall.op = "update"
    /\ TopCall.i > Len(subs)
    /\ callStack' = SubSeq(callStack, 1, Len(callStack) - 1)
    /\ UNCHANGED <<state, subs, subscriptions, rendering, element, renderer>>

\* store.subscribe(fn) up to its call of fn (lines 75-76)
Subscribe(fn) ==
    /\ UserCode
    /\ Len(subscriptions.made) < MaxSubscriptions
    /\ subs' = SetAdd(subs, fn)
    /\ callStack' = Append(callStack, Call("callback", fn, state, {}))
    /\ subscriptions' =
          Receives([subscriptions EXCEPT
                       !.made = Append(@, [fn |-> fn, returned |-> FALSE, called |-> FALSE,
                                           after |-> 0, depth |-> Len(callStack) + 1])],
                   fn, state)
    /\ UNCHANGED <<state, rendering, element, renderer>>

\* the unsubscribe functions of the calls of subscribe that wait for the
\* subscriber that returns: subscribe returns them (line 77)
Returning(made, depth) ==
    [x \in DOMAIN made |->
        IF made[x].returned = FALSE /\ made[x].depth = depth
        THEN [made[x] EXCEPT !.returned = TRUE]
        ELSE made[x]]

\* a subscriber returns
CallbackReturns ==
    /\ callStack # <<>>
    /\ TopCall.op = "callback"
    /\ callStack' = SubSeq(callStack, 1, Len(callStack) - 1)
    /\ subscriptions' = [subscriptions EXCEPT !.made = Returning(@, Len(callStack))]
    /\ UNCHANGED <<state, subs, rendering, element, renderer>>

\* the function that the call x of subscribe returned is called (line 77)
Unsubscribe(x) ==
    /\ UserCode
    /\ subscriptions.made[x].returned
    /\ subscriptions.unsubscribes < MaxUnsubscribes
    /\ subs' = SetDelete(subs, subscriptions.made[x].fn)
    /\ subscriptions' = [subscriptions EXCEPT !.made[x].called = TRUE,
                                              !.unsubscribes = @ + 1]
    /\ UNCHANGED <<state, callStack, rendering, element, renderer>>

NextStore ==
    \/ Update
    \/ ForEach
    \/ UpdateReturns
    \/ \E fn \in Fns : Subscribe(fn)
    \/ CallbackReturns
    \/ \E x \in Handles : Unsubscribe(x)

\* an application that uses one store
SpecStore == Init /\ [][NextStore]_vars

-----------------------------------------------------------------------------
(* minui: h and el.render *)

\* el[H_KEY] of a node made without a key, and of a text node
NoKey == ""

\* an item of the array childFn returns: h(tag, key, attrs, childFn, init),
\* or a string
Item(k, init) == [key |-> k, init |-> init]

\* what childFn returns: keyed nodes in either order, with a text, and
\* nothing
Outputs ==
    {<<>>,
     << Item(NoKey, "t") >>,
     << Item("a", "1") >>,
     << Item("a", "2") >>,
     << Item("b", "1") >>,
     << Item("a", "1"), Item("b", "1") >>,
     << Item("b", "1"), Item("a", "2") >>,
     << Item(NoKey, "t"), Item("a", "1") >>}

\* the node h makes for an item (lines 7-8, 23, 61): it has rendered init
hNode(item) == [key |-> item.key, init |-> item.init, shown |-> item.init]

\* prevCache.get(k) (lines 32, 37)
CacheGet(cache, k) == IF k \in DOMAIN cache THEN cache[k] ELSE Null

\* the callback of arr.map for the item made as node id (lines 35-46)
mapItem(E, prevCache, item, id) ==
    IF item.key # NoKey /\ CacheGet(prevCache, item.key) # Null
    THEN [made     |-> [E.made EXCEPT ![prevCache[item.key]].shown = item.init],
          nextCache |-> MapSet(E.nextCache, item.key, prevCache[item.key]),
          newNodes  |-> Append(E.newNodes, prevCache[item.key])]
    ELSE IF item.key # NoKey
    THEN [E EXCEPT !.nextCache = MapSet(@, item.key, id),
                   !.newNodes = Append(@, id)]
    ELSE [E EXCEPT !.newNodes = Append(@, id)]

RECURSIVE mapItems(_, _, _, _, _)
\* arr.map (lines 34-47) from item i on; the nodes of out were made as
\* base + 1, base + 2, ...
mapItems(E, prevCache, out, base, i) ==
    IF i > Len(out)
    THEN E
    ELSE mapItems(mapItem(E, prevCache, out[i], base + i), prevCache, out, base, i + 1)

\* the child nodes that are not in newNodes are removed (lines 49-52)
removeOthers(kids, newNodes) ==
    SelectSeq(kids, LAMBDA n : \E i \in 1..Len(newNodes) : newNodes[i] = n)

RECURSIVE insertAll(_, _, _)
\* every node of newNodes is put at its index (lines 53-58)
insertAll(kids, newNodes, i) ==
    IF i > Len(newNodes)
    THEN kids
    ELSE insertAll(IF At(kids, i - 1) # newNodes[i]
                   THEN InsertBeforeIn(Without(kids, newNodes[i]), newNodes[i],
                                       At(kids, i - 1))
                   ELSE kids,
                   newNodes, i + 1)

\* el[H_CACHE] after line 48
NextCache(cache, nextCache) ==
    IF DOMAIN nextCache # {} THEN nextCache ELSE cache

\* the element after el.render, E being the result of arr.map
rendered(e, E, out) ==
    [childNodes |-> insertAll(removeOthers(e.childNodes, E.newNodes), E.newNodes, 1),
     keyCache   |-> NextCache(e.keyCache, E.nextCache),
     made       |-> E.made,
     renders    |-> e.renders + 1,
     out        |-> out,
     before     |-> [made |-> Len(e.made), out |-> e.out]]

\* el.render(arg) with childFn(arg, el) returning out (lines 28-59):
\* childFn makes the nodes of out, then they are mapped and placed
ElRender(out) ==
    /\ element.renders < MaxRenders
    /\ element' =
          rendered(element,
                   mapItems([made |-> element.made \o [i \in 1..Len(out) |-> hNode(out[i])],
                             nextCache |-> [k \in {} |-> Null],
                             newNodes |-> <<>>],
                            element.keyCache, out, Len(element.made), 1),
                   out)
    /\ UNCHANGED <<rendering, storing, renderer>>

NextMinui == \E out \in Outputs : ElRender(out)

\* an application that renders one element of minui again and again
SpecMinui == Init /\ [][NextMinui]_vars

-----------------------------------------------------------------------------
(* nanoui: render({container, keySelector, createElement}) *)

\* a value of a property of an item
Value(t, v) == [t |-> t, v |-> v]

\* the item {id: k, ...props}
ItemOf(k, props) == [id |-> k, props |-> props]

\* keySelector: item => item.id
keySelector(item) == item.id

\* JSON.stringify of a value that is serialized, as the tokens of the text:
\* a string is quoted, a number that is not finite gives null
JsonOf(x) ==
    IF x.t = "string" THEN << "q", x.v, "q" >>
    ELSE IF x.t = "number" /\ x.v \notin {"NaN", "Infinity"} THEN << x.v >>
    ELSE << "null" >>

\* JSON.stringify leaves out a property whose value is undefined or a
\* function
Serialized(x) == x.t \notin {"undefined", "function"}

RECURSIVE JsonMembers(_, _)
\* the members of the properties props from i on, each after a comma
JsonMembers(props, i) ==
    IF i > Len(props)
    THEN <<>>
    ELSE (IF Serialized(props[i][2])
          THEN << ",", "q", props[i][1], "q", ":" >> \o JsonOf(props[i][2])
          ELSE <<>>)
         \o JsonMembers(props, i + 1)

\* JSON.stringify(item) (line 125)
stringify(item) ==
    << "{", "q", "id", "q", ":", "q", item.id, "q" >>
        \o JsonMembers(item.props, 1) \o << "}" >>

\* the keys of items: new Set(items.map(keySelector)) (line 113)
currentKeys(items) == {keySelector(items[i]) : i \in 1..Len(items)}

\* the elements whose key is not in the items are removed and forgotten
\* (lines 114-120)
removeStale_KeepsKeys(R, keys) ==
    [R EXCEPT
        !.children = SelectSeq(@, LAMBDA e : \A k \in (DOMAIN R.elementMap) \ keys :
                                                R.elementMap[k] # e)]
removeStale(R, keys) ==
    [R EXCEPT
        !.children = SelectSeq(@, LAMBDA e : \A k \in (DOMAIN R.elementMap) \ keys :
                                                R.elementMap[k] # e),
        !.elementMap = [k \in keys \cap DOMAIN @ |-> @[k]],
        !.valueMap = [k \in keys \cap DOMAIN @ |-> @[k]]]

\* createElement(item), the item being the one at index: a new element,
\* registered under its key with the text of the item (lines 131-133,
\* 136, 138-139)
createElement(R, item, index) ==
    [R EXCEPT
        !.elements = Append(@, item),
        !.elementMap = MapSet(@, keySelector(item), Len(R.elements) + 1),
        !.valueMap = MapSet(@, keySelector(item), stringify(item)),
        !.created = Append(@, index)]

\* element.parentNode.replaceChild(newElement, element) (line 137)
replaceChild(kids, newElement, old) ==
    [i \in 1..Len(kids) |-> IF kids[i] = old THEN newElement ELSE kids[i]]

\* oldValue !== jsonValue (line 134)
Differs_Never(oldValue, jsonValue) == FALSE
Differs(oldValue, jsonValue) == oldValue # jsonValue

\* the element of the item after lines 124-141
elementOf(R, item, index) ==
    IF CacheGet(R.elementMap, keySelector(item)) = Null
    THEN createElement(R, item, index)
    ELSE IF Differs(R.valueMap[keySelector(item)], stringify(item))
    THEN [createElement(R, item, index) EXCEPT
             !.children = replaceChild(@, Len(R.elements) + 1,
                                       R.elementMap[keySelector(item)])]
    ELSE R

\* the element is put at index (lines 144-147)
position(R, e, index) ==
    IF At(R.children, index) # e
    THEN [R EXCEPT !.children = InsertBeforeIn(Without(@, e), e, At(R.children, index))]
    ELSE R

\* the callback of items.forEach (lines 123-148)
processItem(R, item, index) ==
    position(elementOf(R, item, index),
             elementOf(R, item, index).elementMap[keySelector(item)], index)

RECURSIVE forEachItem(_, _, _)
\* items.forEach from index on
forEachItem(R, items, index) ==
    IF index >= Len(items)
    THEN R
    ELSE forEachItem(processItem(R, items[index + 1], index), items, index + 1)

\* the function render returned, called with items
renderItems(R, items) ==
    forEachItem(removeStale([R EXCEPT !.created = <<>>], currentKeys(items)), items, 0)

\* the values of the one other property of the items
Values ==
    {Value("number", "1"), Value("string", "1"), Value("number", "NaN"),
     Value("null", ""), Value("undefined", "")}

\* the items of one key: with no other property, or with the property v
ItemsOf(k) == {ItemOf(k, <<>>)} \cup {ItemOf(k, << <<"v", x>> >>) : x \in Values}

\* the arrays given to the function: items of distinct keys
ItemLists ==
    {<<>>}
    \cup {<<a>> : a \in ItemsOf("a")}
    \cup {<<a, b>> : a \in ItemsOf("a"), b \in {ItemOf("b", <<>>)}}
    \cup {<<b, a>> : a \in ItemsOf("a"), b \in {ItemOf("b", <<>>)}}
    \cup {<< ItemOf("c", <<>>), ItemOf("b", <<>>), ItemOf("a", <<>>) >>}

\* the function is called with items
RenderItems(items) ==
    /\ renderer.calls < MaxCalls
    /\ renderer' =
          [renderItems(renderer, items) EXCEPT
              !.items = items,
              !.calls = @ + 1,
              !.before = [children |-> renderer.children,
                          elementMap |-> renderer.elementMap,
                          items |-> renderer.items,
                          elements |-> Len(renderer.elements)]]
    /\ UNCHANGED <<rendering, storing, element>>

NextList == \E items \in ItemLists : RenderItems(items)

\* an application that renders one list with one renderer
SpecList == Init /\ [][NextList]_vars

NextBuilder ==
    \/ \E ds \in BuilderLists : Render(ds)
    \/ RenderNull
    \/ \E ds \in BuilderLists : RenderThrows(ds)

\* a builder that returns nested arrays, null, or throws
SpecBuilder == Init /\ [][NextBuilder]_vars

-----------------------------------------------------------------------------
(* Vocabulary of the properties *)

\* a pass has run and returned normally, and nothing happened since
Completed == passes >= 1 /\ ~thrown /\ fired = NoDispatch

Entries == {matches[i] : i \in 1..Len(matches)}

\* the element nodes of the description forest ids, as built in B
DescElements(B, ids) ==
    {n \in UNION {Descendants(B, ids[i]) : i \in 1..Len(ids)} : IsElementNode(B, n)}

KeyedDescs(B, ids) == {n \in DescElements(B, ids) : Truthy(getKey(B, n))}

\* the attached elements that carry key k
LiveWithKey(N, k) == {n \in Live(N) : getKey(N, n) = k}

\* the node was created by the last invocation
Fresh(n) == n > Len(before.nodes)

-----------------------------------------------------------------------------
(* C1 *)

RECURSIVE TreeMatches(_, _)
\* the live elements liveKids match the description elements descKids,
\* by tag and attributes (the key is an attribute), at every level
TreeMatches(liveKids, descKids) ==
    /\ Len(liveKids) = Len(descKids)
    /\ \A i \in 1..Len(liveKids) :
          /\ nodes[liveKids[i]].tag = built[descKids[i]].tag
          /\ nodes[liveKids[i]].attrs = built[descKids[i]].attrs
          /\ TreeMatches(children(nodes, liveKids[i]), children(built, descKids[i]))

\* C1: after every completed pass the live tree matches the description at
\* every level: same number of element children, and the i-th live child
\* has the tag, key and attributes of the i-th description child (the
\* descriptions of Spec keep keys unique among siblings).
C1_LiveTreeMatchesDescription ==
    Completed => TreeMatches(children(nodes, Container), newElements)

-----------------------------------------------------------------------------
(* C2 *)

OccursOnce(B, ids, k) == Cardinality({n \in KeyedDescs(B, ids) : getKey(B, n) = k}) = 1

\* description d1 of the previous pass and d2 of the last pass are the same
\* keyed description: same key, tag and attributes, neither with mixed content
SameKeyedDescription(d1, d2) ==
    /\ getKey(before.built, d1) = getKey(built, d2)
    /\ before.built[d1].tag = built[d2].tag
    /\ before.built[d1].attrs = built[d2].attrs
    /\ ~hasMixedContent(before.built, d1)
    /\ ~hasMixedContent(built, d2)

\* C2: if two consecutive passes supply a keyed description with the same
\* key, tag and attributes and no mixed content, the live node for that key
\* after the second pass is the node that was live for it after the first.
\* Stated for a key that occurs once in each of the two descriptions.
C2_UnchangedKeyedDescriptionKeepsNode ==
    (passes >= 2 /\ ~thrown /\ ~before.thrown) =>
        \A d1 \in KeyedDescs(before.built, before.ids) :
            \A d2 \in KeyedDescs(built, newElements) :
                (/\ SameKeyedDescription(d1, d2)
                 /\ OccursOnce(before.built, before.ids, getKey(built, d2))
                 /\ OccursOnce(built, newElements, getKey(built, d2)))
                => /\ LiveWithKey(before.nodes, getKey(built, d2)) # {}
                   /\ LiveWithKey(before.nodes, getKey(built, d2))
                          \subseteq LiveWithKey(nodes, getKey(built, d2))

-----------------------------------------------------------------------------
(* C3 *)

\* the candidate of a forEach iteration: the node registered for the key,
\* or for a keyless description the keyless node at its index
Candidate(e) ==
    IF Truthy(getKey(built, e.desc)) THEN e.ref
    ELSE IF e.at # Null /\ ~Truthy(getKey(nodes, e.at)) THEN e.at
    ELSE Null

\* C3: if any attribute of a description differs from the attributes of its
\* candidate live node, then after the pass the node at that index of the
\* parent is the new node (a different reference, with the new attributes)
\* and the old node is no longer a child of the parent.
C3_AttributeChangeRecreates ==
    Completed =>
        \A e \in Entries :
            (Candidate(e) # Null /\ nodes[Candidate(e)].attrs # built[e.desc].attrs)
            => /\ e.desc # Candidate(e)
               /\ At(children(nodes, e.parent), e.index) = e.desc
               /\ nodes[Candidate(e)].parent # e.parent

-----------------------------------------------------------------------------
(* C4 *)

\* e is a keyless leaf description met by a keyless live leaf of the same
\* tag and attributes at its index
LeafOverLeaf(e) ==
    /\ ~Truthy(getKey(built, e.desc))
    /\ Len(children(built, e.desc)) = 0
    /\ e.at # Null /\ ~Fresh(e.at) /\ e.atLeaf
    /\ ~Truthy(getKey(nodes, e.at))
    /\ nodes[e.at].tag = built[e.desc].tag
    /\ nodes[e.at].attrs = built[e.desc].attrs

\* C4: keyless sibling leaves with equal tag and attributes, re-rendered as
\* a list of the same length: every position reuses its live node, after
\* the pass each live node's text is the text of the description at its
\* index, and text is written only where it differs.
C4_PositionalLeavesReusedAndTextSynced ==
    Completed =>
        \A e \in Entries :
            (/\ e.n = e.m
             /\ \A f \in Entries : f.call = e.call => LeafOverLeaf(f))
            => /\ e.reason = "reuse" /\ e.ref = e.at
               /\ At(children(nodes, e.parent), e.index) = e.at
               /\ textContent(nodes, e.at) = textContent(built, e.desc)
               /\ e.wrote => e.oldText # textContent(built, e.desc)

-----------------------------------------------------------------------------
(* C8 *)

\* the live node the parent of iteration e stands for before the pass: the
\* parent itself, or the candidate it replaced
ParentBefore(e) ==
    {e.parent} \cup {f.ref : f \in {g \in Entries : g.desc = e.parent}}

\* C8: when one key occurs under two different parents of a description,
\* each occurrence is matched only against a node that was a child of its
\* own parent before the pass, and after the pass each parent holds one
\* live node of its own for the key.
C8_KeysAreScopedToTheParent ==
    Completed =>
        \A e \in Entries : \A f \in Entries :
            (/\ Truthy(getKey(built, e.desc))
             /\ getKey(built, e.desc) = getKey(built, f.desc)
             /\ e.parent # f.parent)
            => /\ e.ref # Null =>
                     /\ ~Fresh(e.ref)
                     /\ before.nodes[e.ref].parent \in ParentBefore(e)
               /\ Cardinality({c \in Live(nodes) :
                                  /\ nodes[c].parent = e.parent
                                  /\ getKey(nodes, c) = getKey(built, e.desc)}) = 1

-----------------------------------------------------------------------------
(* C9 *)

\* C9: within one pass a previously live keyed node is claimed by at most
\* one description: a second description with the same key does not get
\* the same live node.
C9_KeyEntryIsConsumedWhenMatched ==
    Completed =>
        \A i \in 1..Len(matches) : \A j \in 1..Len(matches) :
            (/\ i # j
             /\ Truthy(getKey(built, matches[i].desc))
             /\ matches[i].ref # Null /\ ~Fresh(matches[i].ref))
            => matches[j].ref # matches[i].ref

-----------------------------------------------------------------------------
(* C5 *)

HandlersOf(N, n, event) == {l[2] : l \in {x \in N[n].listeners : x[1] = event}}

\* iteration e reused a keyed node that had a handler for the event before
\* the pass, for a description that has a handler for it
RehandledBy(e, event) ==
    /\ e.reason = "reuse"
    /\ Truthy(getKey(built, e.desc))
    /\ ~Fresh(e.ref)
    /\ HandlersOf(before.nodes, e.ref, event) # {}
    /\ HandlersOf(built, e.desc, event) # {}

\* C5: a keyed node rendered with handler H1 and then reused with handler
\* H2 for the same event type: a dispatch of that event on the live node
\* invokes exactly H2.
C5_DispatchInvokesOnlyTheNewHandler ==
    (passes >= 1 /\ ~thrown /\ fired.node # Null) =>
        \A e \in Entries :
            (e.ref = fired.node /\ RehandledBy(e, fired.event))
            => fired.handlers = HandlersOf(built, e.desc, fired.event)

-----------------------------------------------------------------------------
(* C6 *)

\* iteration e is for a keyed description, and the description or its
\* candidate has mixed content
KeyedMixed(e) ==
    /\ Truthy(getKey(built, e.desc))
    /\ hasMixedContent(built, e.desc) \/ e.refMixed

\* C6: a keyed description with mixed content, or whose candidate live node
\* has mixed content, is never reused: the node registered for the key
\* after the pass is a node created in that pass.
C6_MixedContentIsNeverReused ==
    Completed =>
        \A e \in Entries :
            KeyedMixed(e)
            => /\ e.reason # "reuse"
               /\ Fresh(RefGet(elementRefs, getKey(built, e.desc)))

\* a keyed description with mixed content met its live node with the same
\* tag and attributes, and was recreated for the mixed content alone
C6_Witness ==
    /\ Completed
    /\ \E e \in Entries :
          /\ KeyedMixed(e) /\ hasMixedContent(built, e.desc)
          /\ e.ref # Null /\ ~Fresh(e.ref)
          /\ nodes[e.ref].tag = built[e.desc].tag
          /\ nodes[e.ref].attrs = built[e.desc].attrs
          /\ e.reason = "mixed"

-----------------------------------------------------------------------------
(* C7 *)

\* C7: when a form-like live node is reused, after the pass its live value
\* and checked state equal those of the latest description, whatever they
\* were before the pass.
C7_FormPropertiesFollowTheDescription ==
    Completed =>
        \A e \in Entries :
            (e.reason = "reuse" /\ nodes[e.ref].tag \in {"input", "textarea"})
            => /\ valueOf(nodes, e.ref) = valueOf(built, e.desc)
               /\ nodes[e.ref].checked = built[e.desc].checked

-----------------------------------------------------------------------------
(* C10 *)

\* C10: a keyless description is never matched to a keyed live node, and a
\* keyed description never to a keyless one: whenever an iteration has a
\* candidate, the candidate carries the key of the description, or both
\* carry none.
C10_CandidateHasTheKeyOfTheDescription ==
    passes >= 1 =>
        \A e \in Entries :
            e.ref # Null => getKey(nodes, e.ref) = getKey(built, e.desc)

\* a keyless description met a keyed live node of its own tag at its index
\* and did not take it, while another description reused its node
C10_Witness ==
    /\ Completed
    /\ \E e \in Entries :
          /\ ~Truthy(getKey(built, e.desc))
          /\ e.at # Null /\ ~Fresh(e.at)
          /\ Truthy(getKey(nodes, e.at))
          /\ nodes[e.at].tag = built[e.desc].tag
          /\ e.ref = Null

-----------------------------------------------------------------------------
(* C11 *)

\* C11: within one pass no node is handled twice: no two iterations have
\* the same candidate (no live node is claimed by two descriptions), and no
\* candidate is a node created in this pass.
C11_EachLiveNodeIsHandledOnce ==
    Completed =>
        /\ \A i \in 1..Len(matches) : \A j \in 1..Len(matches) :
              (i # j /\ matches[i].ref # Null) => matches[j].ref # matches[i].ref
        /\ \A e \in Entries : e.ref # Null => ~Fresh(e.ref)

-----------------------------------------------------------------------------
(* C12 *)

\* the keys of the description forest ids, as built in B
DescKeys(B, ids) == {getKey(B, n) : n \in KeyedDescs(B, ids)}

\* the attached elements that carry a key
KeyedLive(N) == {n \in Live(N) : Truthy(getKey(N, n))}

\* n was live and keyed before the pass and no description has its key
Unclaimed(n) ==
    /\ n \in KeyedLive(before.nodes)
    /\ getKey(before.nodes, n) \notin DescKeys(built, newElements)

-----------------------------------------------------------------------------
(* C20 *)

RECURSIVE ShapeOf(_, _)
\* the description rooted at n as a value: the node without its identity
ShapeOf(B, n) ==
    [tag |-> B[n].tag, attrs |-> B[n].attrs, data |-> B[n].data,
     listeners |-> B[n].listeners, value |-> valueOf(B, n),
     checked |-> B[n].checked,
     kids |-> [i \in 1..Len(B[n].kids) |-> ShapeOf(B, B[n].kids[i])]]

\* the description of the last pass equals that of the pass before
SameDescription ==
    /\ Len(newElements) = Len(before.ids)
    /\ \A i \in 1..Len(newElements) :
          ShapeOf(built, newElements[i]) = ShapeOf(before.built, before.ids[i])

NoMixedContent(B, ids) == \A n \in DescElements(B, ids) : ~hasMixedContent(B, n)

\* C20: a pass whose description equals that of the previous pass (no mixed
\* content) creates, removes and relocates nothing: the live nodes and the
\* element children of every parent are the same before and after.
C20_SameDescriptionChangesNothing ==
    (/\ Completed /\ passes >= 2 /\ ~before.thrown
     /\ SameDescription /\ NoMixedContent(built, newElements))
    => /\ Live(nodes) = Live(before.nodes)
       /\ \A n \in Live(nodes) \cup {Container} :
             children(nodes, n) = children(before.nodes, n)

-----------------------------------------------------------------------------
(* C13 *)

\* the attributes a description gives, without the mark h and tags.svg set
\* for an event binding
SansEventMark(attrs) == [x \in (DOMAIN attrs) \ {"data-has-event"} |-> attrs[x]]

\* the description of iteration e differs from its candidate in the event
\* bindings at most
OnlyBindingsDiffer(e) ==
    /\ e.ref # Null /\ ~Fresh(e.ref)
    /\ before.nodes[e.ref].tag = built[e.desc].tag
    /\ SansEventMark(before.nodes[e.ref].attrs) = SansEventMark(built[e.desc].attrs)
    /\ ~e.refMixed /\ ~hasMixedContent(built, e.desc)

\* C13: a description that differs from its candidate only in the event
\* bindings (a handler added, removed or replaced) is reused: the node at
\* its index after the pass is the candidate.
C13_BindingChangeIsNotAnAttributeChange ==
    Completed =>
        \A e \in Entries :
            OnlyBindingsDiffer(e)
            => /\ e.reason = "reuse"
               /\ At(children(nodes, e.parent), e.index) = e.ref

-----------------------------------------------------------------------------
(* C17 *)

\* the keys of the top-level descriptions ids, in order
TopKeys(B, ids) == [i \in 1..Len(ids) |-> getKey(B, ids[i])]

\* the top-level descriptions of the last pass are those of the pass before
\* in some order: keyed, each key once, tag and attributes unchanged
PermutedSiblings ==
    /\ Len(newElements) = Len(before.ids)
    /\ \A i \in 1..Len(newElements) :
          /\ Truthy(getKey(built, newElements[i]))
          /\ ~hasMixedContent(built, newElements[i])
          /\ \A j \in 1..Len(newElements) :
                TopKeys(built, newElements)[i] = TopKeys(built, newElements)[j] => i = j
          /\ \E j \in 1..Len(before.ids) :
                /\ getKey(before.built, before.ids[j]) = getKey(built, newElements[i])
                /\ before.built[before.ids[j]].tag = built[newElements[i]].tag
                /\ before.built[before.ids[j]].attrs = built[newElements[i]].attrs
                /\ ~hasMixedContent(before.built, before.ids[j])

\* C17: re-rendering the keyed children of the container in a permuted
\* order keeps every live node and leaves the children in the new order:
\* the i-th child after the pass is the node that was live for the i-th key
\* before it; a reused node that is at its index already is not moved.
C17_PermutedKeyedSiblingsKeepTheirNodes ==
    (Completed /\ passes >= 2 /\ ~before.thrown /\ PermutedSiblings) =>
        /\ Len(children(nodes, Container)) = Len(newElements)
        /\ \A i \in 1..Len(newElements) :
              At(children(nodes, Container), i - 1)
                  \in LiveWithKey(before.nodes, getKey(built, newElements[i]))
        /\ \A e \in Entries : e.moved => ~e.inPlace

-----------------------------------------------------------------------------
(* C18 *)

\* iteration e is for a keyed description whose tag is not the tag of the
\* live node registered for its key
TagChanged(e) ==
    /\ Truthy(getKey(built, e.desc))
    /\ e.ref # Null /\ ~Fresh(e.ref)
    /\ before.nodes[e.ref].tag # built[e.desc].tag

\* C18: a keyed description whose tag differs from the tag of the live node
\* holding its key is no error: the pass completes, the old node is no
\* longer attached, and the new node is at the description's index and is
\* the node registered for the key.
C18_TagChangeRecreatesWithoutError ==
    passes >= 1 =>
        \A e \in Entries :
            TagChanged(e)
            => /\ ~thrown
               /\ e.ref \notin Live(nodes)
               /\ At(children(nodes, e.parent), e.index) = e.desc
               /\ RefGet(elementRefs, getKey(built, e.desc)) = e.desc

-----------------------------------------------------------------------------
(* C14 *)

RECURSIVE Flat(_, _)
\* the entries of the arrays ids, nested to any depth, in order
Flat(B, ids) ==
    IF ids = <<>> THEN <<>>
    ELSE (IF Head(ids) # Null /\ B[Head(ids)].tag = "#array"
          THEN Flat(B, B[Head(ids)].kids)
          ELSE <<Head(ids)>>) \o Flat(B, Tail(ids))

\* the builder returned a list, and nothing happened since
Returned == passes >= 1 /\ builder = "returned" /\ fired = NoDispatch

HasNull(ids) == \E i \in 1..Len(ids) : ids[i] = Null

\* C14: when the builder returns arrays nested to any depth (no null in
\* them), the pass completes and the element children of the container are
\* the flattened sequence of the result's nodes, in order.
C14_NestedArraysAreFlattened ==
    (Returned /\ ~HasNull(Flat(built, newElements)))
    => /\ ~thrown
       /\ TreeMatches(children(nodes, Container), Flat(built, newElements))

-----------------------------------------------------------------------------
(* C15 *)

\* the last builder result is null, empty, or has a null entry
Malformed ==
    /\ passes >= 1 /\ fired = NoDispatch
    /\ \/ builder = "null"
       \/ builder = "returned" /\ (newElements = <<>> \/ HasNull(newElements))

NotNull(x) == x # Null

\* C15: when the builder returns null, an empty list, or a list with a null
\* entry, the pass raises nothing and the container's children are those
\* of the list without its null entries (none for null and for the empty
\* list).
C15_MalformedResultIsAnEmptyChildList ==
    Malformed
    => /\ ~thrown
       /\ TreeMatches(children(nodes, Container), SelectSeq(newElements, NotNull))

-----------------------------------------------------------------------------
(* C16 *)

\* node n of heap N, with the nodes created after the failed invocation
\* started renumbered by shift
Renumber(n, shift) == IF n > Len(before.nodes) THEN n - shift ELSE n

RECURSIVE Image(_, _, _)
\* the subtree of n in N: identities, content, and children in order
Image(N, n, shift) ==
    [id   |-> Renumber(n, shift),
     node |-> [N[n] EXCEPT !.kids = <<>>, !.parent = Null],
     kids |-> [i \in 1..Len(N[n].kids) |-> Image(N, N[n].kids[i], shift)]]

\* what an invocation with outcome r leaves behind and reports
Behaviour(r, shift) ==
    [tree    |-> Image(r.N, Container, shift),
     refs    |-> [k \in DOMAIN r.refs |-> Renumber(r.refs[k], shift)],
     store   |-> {<<Renumber(n, shift), r.store[n]>> : n \in Live(r.N) \cap DOMAIN r.store},
     thrown  |-> r.thrown,
     reasons |-> [i \in 1..Len(r.trace) |->
                     <<r.trace[i].reason, Renumber(r.trace[i].ref, shift)>>]]

\* C16: when the builder throws, the invoker throws, every node that
\* existed before the call is as it was (so the tree under the container
\* is), the key index and the handler records of those nodes are as
\* before, and any next invocation does from here what it would have done
\* from the state before the failed call (up to the identities of the
\* nodes it creates).
C16_ThrowingBuilderChangesNothing ==
    builder = "throws"
    => /\ thrown
       /\ SubSeq(nodes, 1, Len(before.nodes)) = before.nodes
       /\ elementRefs = before.refs
       /\ \A n \in DOMAIN before.store : eventStore[n] = before.store[n]
       /\ \A ds \in BuilderLists :
             Behaviour(Invoke(nodes, elementRefs, eventStore, ds),
                       Len(nodes) - Len(before.nodes))
             = Behaviour(Invoke(before.nodes, before.refs, before.store, ds), 0)

\* a builder threw after it had built nodes, over a rendered keyed tree
C16_Witness ==
    /\ builder = "throws"
    /\ Len(nodes) > Len(before.nodes)
    /\ Live(nodes) # {}
    /\ DOMAIN elementRefs # {}

-----------------------------------------------------------------------------
(* C19 *)

\* the state the invoker left is the state of the whole pass: every
\* iteration, every queued call, the removal loops and the deletion of
\* the unused keys, from the state in which the invoker was called
WholePass ==
    [N |-> nodes, refs |-> elementRefs, store |-> eventStore, thrown |-> thrown,
     trace |-> matches, built |-> built, ids |-> newElements]
    = Invoke(before.nodes, before.refs, before.store, run.ds)

\* C19: every invocation that starts returns (or throws), whatever the
\* description and the live tree, also when an inserted node is patched
\* against its own children; and when the invoker has returned, the
\* whole pass has been done.
C19_EveryPassTerminates ==
    /\ run.active ~> ~run.active
    /\ []((~run.active /\ passes >= 1) => WholePass)

\* an invocation returned in which a node was inserted and then patched
\* against its own children
C19_Witness ==
    /\ ~run.active /\ passes >= 2 /\ ~thrown
    /\ \E e1, e2 \in Entries :
          /\ e1.reason # "reuse"
          /\ e2.parent = e1.desc
          /\ e2.call > e1.call

-----------------------------------------------------------------------------
(* C21 *)

Keyless(N, n) == ~Truthy(getKey(N, n))

\* the node that iteration e left for its description: the reused
\* candidate, or the description's own node
Made(e) == IF e.reason = "reuse" THEN e.ref ELSE e.desc

\* the nodes reused or inserted under p for keyless descriptions
KeylessMade(p) ==
    {Made(e) : e \in {x \in Entries : x.parent = p /\ Keyless(built, x.desc)}}

KeylessChildren(N, p) ==
    {At(children(N, p), i - 1) : i \in {j \in 1..Len(children(N, p)) :
                                           Keyless(N, At(children(N, p), j - 1))}}

\* C21: after a completed pass the keyless element children of the
\* container and of every attached node are exactly the nodes the pass
\* reused or inserted there for keyless descriptions; no other keyless
\* node survives.
C21_NoStaleKeylessChild ==
    Completed =>
        \A p \in Live(nodes) \cup {Container} :
            KeylessChildren(nodes, p) = KeylessMade(p)

-----------------------------------------------------------------------------
(* C22 *)

RECURSIVE Kept(_, _)
\* the children h is to make of the arguments kids: nothing for null,
\* undefined and booleans, the entries of an array in order, a text node
\* for a string or a number, the node itself for a node
Kept(kids, i) ==
    IF i > Len(kids) THEN <<>>
    ELSE (IF kids[i].kind = "null" \/ kids[i].tag \in {"#undefined", "#boolean"}
          THEN <<>>
          ELSE IF kids[i].kind = "array" THEN Kept(kids[i].kids, 1)
          ELSE IF kids[i].kind \in {"text", "value"} THEN << <<"#text", kids[i].text>> >>
          ELSE << <<kids[i].tag, "">> >>) \o Kept(kids, i + 1)

\* the child nodes of el, as (tag, text)
ChildNodes(N, el) == [i \in 1..Len(N[el].kids) |-> <<N[N[el].kids[i]].tag, N[N[el].kids[i]].data>>]

\* C22: the node h returns has, in order, one child per kept argument:
\* null, undefined and boolean arguments give no child, arrays are
\* flattened, strings and numbers give one text node of their string form.
C22_ValuesThatAreNoNodes ==
    \A i \in 1..Len(run.b.ids) :
        ChildNodes(run.b.N, run.b.ids[i]) = Kept(run.ds[i].kids, 1)



-----------------------------------------------------------------------------
(* C23 *)

\* the calls of tags.svg functions so far
SvgCalls == {tagsSvg.made[i] : i \in 1..Len(tagsSvg.made)}

\* the templates in the caches of the functions
Templates ==
    UNION {{tagsSvg.caches[f][m] : m \in DOMAIN tagsSvg.caches[f]} :
              f \in 1..Len(tagsSvg.caches)}

Passed(props) == {props[i] : i \in 1..Len(props)}

\* node n carries the properties props over the attributes of the markup,
\* and nothing else: an attribute per plain property, a listener per
\* handler (with the mark that a handler is attached)
CarriesExactly(n, props) ==
    /\ \A p \in Passed(props) :
          IF IsEventKey(p[1]) THEN <<EventName(p[1]), p[2]>> \in nodes[n].listeners
          ELSE getAttribute(nodes, n, p[1]) = p[2]
    /\ \A l \in nodes[n].listeners :
          \E p \in Passed(props) : IsEventKey(p[1]) /\ l = <<EventName(p[1]), p[2]>>
    /\ \A a \in DOMAIN nodes[n].attrs :
          \/ a \in DOMAIN SvgAttrs /\ nodes[n].attrs[a] = SvgAttrs[a]
          \/ \E p \in Passed(props) : ~IsEventKey(p[1]) /\ p[1] = a
          \/ a = "data-has-event" /\ \E p \in Passed(props) : IsEventKey(p[1])

\* C23: every result of a tags.svg call is a node of its own, different
\* from the results of all other calls and from every cached template; it
\* carries exactly the properties of its call, and no template carries a
\* property of any call.
C23_EveryCallReturnsItsOwnClone ==
    /\ \A i, j \in 1..Len(tagsSvg.made) :
          i # j => tagsSvg.made[i].node # tagsSvg.made[j].node
    /\ \A c \in SvgCalls : c.node \notin Templates /\ CarriesExactly(c.node, c.props)
    /\ \A t \in Templates : CarriesExactly(t, <<>>)

\* one function served the same markup twice, with different properties,
\* the second time from its cache
C23_Witness ==
    \E i, j \in 1..Len(tagsSvg.made) :
        /\ i < j
        /\ tagsSvg.made[i].fn = tagsSvg.made[j].fn
        /\ tagsSvg.made[i].markup = tagsSvg.made[j].markup
        /\ tagsSvg.made[i].template = tagsSvg.made[j].template
        /\ tagsSvg.made[i].props # tagsSvg.made[j].props
        /\ tagsSvg.made[i].props # <<>>

-----------------------------------------------------------------------------
(* C24 *)

\* the number of parseFromString calls for markup m
Parses(m) == Cardinality({i \in 1..Len(tagsSvg.parsed) : tagsSvg.parsed[i][2] = m})

\* C24: whatever tags.svg calls were made, each markup string has been
\* parsed at most once.
C24_EachMarkupIsParsedOnce ==
    \A m \in Markups : Parses(m) <= 1

-----------------------------------------------------------------------------
(* C25 *)

\* the candidate of iteration e may be kept: there is one, it has the tag
\* and the attribute map of the description, and neither has mixed content
Reusable(e) ==
    /\ e.ref # Null
    /\ nodes[e.ref].tag = built[e.desc].tag
    /\ nodes[e.ref].attrs = built[e.desc].attrs
    /\ ~e.refMixed /\ ~e.descMixed

\* C25: in a completed pass every iteration reuses its candidate exactly
\* when the candidate exists, has the description's tag and attributes and
\* neither of them has mixed content; in every other case the
\* description's own node is inserted and is the child at the
\* description's index.
C25_ReuseExactlyWhenNothingDiffers ==
    Completed =>
        \A e \in Entries :
            /\ (e.reason = "reuse") <=> Reusable(e)
            /\ e.reason # "reuse" => e.landed

\* a pass with both decisions: one candidate kept, one node inserted over
\* a candidate that differs
C25_Witness ==
    /\ Completed
    /\ \E e \in Entries : e.reason = "reuse" /\ ~Fresh(e.ref)
    /\ \E e \in Entries : e.reason \in {"attrs", "tag", "mixed"} /\ e.landed

-----------------------------------------------------------------------------
(* C26 *)

\* the elements ever built
Elements == {n \in DOMAIN nodes : IsElementNode(nodes, n)}

\* C26: for any two elements, attributesEqual is true exactly when their
\* attribute maps are equal (same names, same values), and it gives the
\* same answer with its arguments exchanged.
C26_AttributesEqualIsMapEquality ==
    \A a, b \in Elements :
        /\ attributesEqual(nodes, a, b) <=> (nodes[a].attrs = nodes[b].attrs)
        /\ attributesEqual(nodes, a, b) <=> attributesEqual(nodes, b, a)

\* elements exist of which one has every attribute of the other and one
\* more, and two that differ in one value
C26_Witness ==
    /\ \E a, b \in Elements :
          /\ DOMAIN nodes[a].attrs \subseteq DOMAIN nodes[b].attrs
          /\ DOMAIN nodes[a].attrs # DOMAIN nodes[b].attrs
          /\ DOMAIN nodes[a].attrs # {}
          /\ \A x \in DOMAIN nodes[a].attrs : nodes[a].attrs[x] = nodes[b].attrs[x]
    /\ \E a, b \in Elements :
          /\ DOMAIN nodes[a].attrs = DOMAIN nodes[b].attrs
          /\ nodes[a].attrs # nodes[b].attrs
    /\ \E a, b \in Elements : a # b /\ nodes[a].attrs = nodes[b].attrs

-----------------------------------------------------------------------------
(* C27 *)

\* n has child nodes, and all of them are text
TextOnly(N, n) ==
    Len(N[n].kids) > 0 /\ \A i \in 1..Len(N[n].kids) : IsText(N, N[n].kids[i])

\* n has child nodes, and all of them are elements
ElementsOnly(N, n) ==
    Len(N[n].kids) > 0 /\ \A i \in 1..Len(N[n].kids) : IsElementNode(N, N[n].kids[i])

\* iteration e kept a live node whose content was text and is described
\* as elements, or was elements and is described as text
ContentKindChanged(e) ==
    /\ e.reason = "reuse" /\ ~Fresh(e.ref)
    /\ \/ TextOnly(before.nodes, e.ref) /\ ElementsOnly(built, e.desc)
       \/ ElementsOnly(before.nodes, e.ref) /\ TextOnly(built, e.desc)

\* C27: when a reused node's description goes from text to element
\* children or back, the node's child nodes after the pass are those of
\* the description, in kind and text: no old text next to the new
\* elements, and the new text in place of the old elements.
C27_ContentFollowsTheDescription ==
    Completed =>
        \A e \in Entries :
            ContentKindChanged(e)
            => ChildNodes(nodes, e.ref) = ChildNodes(built, e.desc)

-----------------------------------------------------------------------------
(* C28 *)

\* iteration e replaced the live node of a key by the description's node
RecreatedKeyed(e) ==
    /\ e.reason \in {"attrs", "tag", "mixed"}
    /\ Truthy(getKey(built, e.desc))
    /\ ~Fresh(e.ref)

\* o, a child of the replaced node, is the live node of the keyed
\* description d: same key, same tag, same attributes, and no mixed
\* content on either side (mixed content is always replaced)
Unchanged(o, d) ==
    /\ Truthy(getKey(built, d))
    /\ getKey(before.nodes, o) = getKey(built, d)
    /\ before.nodes[o].tag = built[d].tag
    /\ before.nodes[o].attrs = built[d].attrs
    /\ ~hasMixedContent(before.nodes, o) /\ ~hasMixedContent(built, d)

\* C28: when a pass replaces a keyed node, every keyed child of its
\* description whose key, tag and attributes are those of a child of the
\* replaced node (neither with mixed content) gets that child: after the
\* pass the old child is the element child of the new node at the
\* description's index.
C28_KeyedChildrenMoveToTheNewParent ==
    Completed =>
        \A e \in Entries :
            RecreatedKeyed(e)
            => \A i \in 1..Len(children(built, e.desc)) :
                   \A o \in {x \in DOMAIN before.nodes : before.nodes[x].parent = e.ref} :
                       Unchanged(o, children(built, e.desc)[i])
                       => At(children(nodes, e.desc), i - 1) = o





-----------------------------------------------------------------------------
(* C29 *)

\* C29: after a completed pass, every entry of elementRefs maps a key to a
\* node that has this key as its data-key, is attached under the
\* container, and whose key occurs in the description of the pass.
C29_KeyIndexHoldsOnlyLiveNodes ==
    Completed =>
        \A k \in DOMAIN elementRefs :
            /\ getKey(nodes, elementRefs[k]) = k
            /\ elementRefs[k] \in Live(nodes)
            /\ k \in DescKeys(built, newElements)



-----------------------------------------------------------------------------
(* C30 *)

\* the (event type, handler) pairs of an event-binding record
Bindings(events) == {<<x, events[x]>> : x \in DOMAIN events}

\* iteration i is the last one of the pass that left the node Made(matches[i])
LastMatch(i) ==
    \A j \in (i + 1)..Len(matches) : Made(matches[j]) # Made(matches[i])

\* C30: after every pass that returned, on every attached node the pass
\* matched, the listeners attached are exactly the event bindings of the
\* description it was last matched with (listeners of types the
\* description dropped are gone), and the record eventStore keeps for
\* the node holds the same bindings; for nodes of h and of tags.svg.
C30_ListenersAreThoseOfTheDescription ==
    (passes >= 1 /\ ~thrown) =>
        \A i \in 1..Len(matches) :
            (LastMatch(i) /\ Made(matches[i]) \in Live(nodes))
            => /\ nodes[Made(matches[i])].listeners = built[matches[i].desc].listeners
               /\ Bindings(StoreGet(eventStore, Made(matches[i])))
                      = built[matches[i].desc].listeners


-----------------------------------------------------------------------------
(* C31 *)

\* no call of the invoker is in progress, and the last one returned normally
Returned31 == ~run.active /\ invoker.building = <<>> /\ passes >= 1 /\ ~thrown

\* the calls that changed the tree, each once, in the order they began to
Changers == {invoker.log[i] : i \in 1..Len(invoker.log)}

\* a call whose builder runs has changed nothing yet, and no call changes
\* the tree after another one has begun to
OnePassAtATime ==
    /\ \A i \in 1..Len(invoker.building) : invoker.building[i] \notin Changers
    /\ Cardinality(Changers) = Len(invoker.log)

\* the last outermost call had a call made from inside its builder
Nested == invoker.count > invoker.outer

\* C31: the tree mutations of two passes on one container never interleave:
\* a call made from inside the builder does its whole pass before the
\* outer call begins to mutate, the outer pass is the last one, and when
\* the outermost call has returned the tree is the one of its description.
C31_NestedPassesDoNotInterleave ==
    /\ OnePassAtATime
    /\ Returned31 => invoker.patching = invoker.outer /\ WholePass
    /\ Returned31 /\ Nested => TreeMatches(children(nodes, Container), newElements)

\* the part of C31 about the order of the mutations alone
C31_Order ==
    /\ OnePassAtATime
    /\ Returned31 => invoker.patching = invoker.outer /\ WholePass








-----------------------------------------------------------------------------
(* C32 *)

\* the value the subscriber fn received last
LastReceived(fn) == subscriptions.received[fn].last

\* C32: whatever calls of subscribe, update and the unsubscribe functions
\* were made, also from inside subscribers, when no call of the store is
\* in progress every function in the Set of subscribers has received the
\* value of store.get() last.
C32_SubscribersHoldTheCurrentState ==
    callStack = <<>> => \A fn \in Members(subs) : LastReceived(fn) = state

\* update was called from inside a subscriber while another subscriber had
\* not yet been called, and every call has returned
C32_Witness ==
    /\ callStack = <<>>
    /\ subscriptions.nested
    /\ Members(subs) = Fns
    /\ subscriptions.received["f"].n # subscriptions.received["g"].n








-----------------------------------------------------------------------------
(* C33 *)

\* the call of subscribe made by this step, if it is one
Subscribed == Len(subscriptions'.made) = Len(subscriptions.made) + 1

\* subscribe(fn) calls fn once, with the current state, before it returns
DeliversAtOnce ==
    Subscribed =>
        subscriptions'.received[subscriptions'.made[Len(subscriptions'.made)].fn]
        = [last |-> state,
           n |-> subscriptions.received[subscriptions'.made[Len(subscriptions'.made)].fn].n + 1]

\* an update is about to return
UpdateDone ==
    /\ callStack # <<>>
    /\ TopCall.op = "update"
    /\ TopCall.i > Len(subs)

\* the subscriber of the call x of subscribe
FnOf(x) == subscriptions.made[x].fn

\* the update that is about to return has called the subscriber of every
\* call of subscribe made before it whose unsubscribe function has not
\* been called
DeliversEachUpdate ==
    UpdateDone =>
        \A x \in TopCall.pending \cap Outstanding : FnOf(x) \in TopCall.got

\* no call of subscribe was made for the same function after the call x
LastOf(x) == \A y \in Handles : FnOf(y) = FnOf(x) => y <= x

\* once the unsubscribe function of a call of subscribe was called, no
\* update calls its subscriber (as long as it is not subscribed again)
SilentAfterUnsubscribe ==
    \A x \in Handles :
        subscriptions.made[x].called /\ LastOf(x) => subscriptions.made[x].after = 0

Alone(x) == \A y \in Handles : FnOf(y) = FnOf(x) => y = x

\* the part of C33 that holds: the lifecycle of a function that is
\* subscribed once
C33_OneSubscriptionPerFunction ==
    /\ [][DeliversAtOnce]_vars
    /\ [](UpdateDone =>
            \A x \in TopCall.pending \cap Outstanding :
                Alone(x) => FnOf(x) \in TopCall.got)
    /\ [](\A x \in Handles :
            subscriptions.made[x].called /\ Alone(x) => subscriptions.made[x].after = 0)








-----------------------------------------------------------------------------
(* C34 *)

\* the keyed nodes among the child nodes of el
KeyedChildren ==
    {element.childNodes[i] : i \in 1..Len(element.childNodes)}
        \cap {n \in DOMAIN element.made : element.made[n].key # NoKey}

\* the keys of what childFn returned
KeysOf(out) == {out[i].key : i \in 1..Len(out)} \ {NoKey}

\* C34: after every el.render the key cache of el holds exactly the keyed
\* nodes that are children of el, each under its own key; and the node of
\* a key that was not in the output of the previous render is one made by
\* this render, not an older node.
C34_KeyCacheHoldsTheKeyedChildren ==
    element.renders >= 1 =>
        /\ {element.keyCache[k] : k \in DOMAIN element.keyCache} = KeyedChildren
        /\ \A k \in DOMAIN element.keyCache : element.made[element.keyCache[k]].key = k
        /\ \A n \in KeyedChildren :
              element.made[n].key \notin KeysOf(element.before.out)
              => n > element.before.made






-----------------------------------------------------------------------------
(* C35 *)

\* the function render returned has been called
Called35 == renderer.calls >= 1

\* the element registered for the item at place i
ElementOfItem(i) == CacheGet(renderer.elementMap, keySelector(renderer.items[i]))

\* C35: after each call with items of distinct keys the children of the
\* container are, in order, the elements registered for the keys of the
\* items, one per item and each made for an item of that key, and
\* elementMap holds exactly the keys of the items.
C35_ChildrenAreTheElementsOfTheItems ==
    Called35 =>
        /\ Len(renderer.children) = Len(renderer.items)
        /\ \A i \in 1..Len(renderer.items) :
              /\ renderer.children[i] = ElementOfItem(i)
              /\ keySelector(renderer.elements[renderer.children[i]])
                 = keySelector(renderer.items[i])
        /\ DOMAIN renderer.elementMap = currentKeys(renderer.items)
        /\ DOMAIN renderer.valueMap = currentKeys(renderer.items)

\* a call removed a key and changed the order of the elements it kept
C35_Witness ==
    /\ renderer.calls >= 2
    /\ currentKeys(renderer.before.items) \ currentKeys(renderer.items) # {}
    /\ \E i, j \in 1..Len(renderer.children) :
          /\ i < j
          /\ renderer.children[i] <= renderer.before.elements
          /\ renderer.children[j] <= renderer.before.elements
          /\ IndexOf(renderer.before.children, renderer.children[i])
             > IndexOf(renderer.before.children, renderer.children[j])

-----------------------------------------------------------------------------
(* C36 *)

\* the keys of the previous call
PreviousKeys == currentKeys(renderer.before.items)

\* the item of key k in the previous call
PreviousItem(k) ==
    renderer.before.items[CHOOSE i \in 1..Len(renderer.before.items) :
                              keySelector(renderer.before.items[i]) = k]

\* the element shown for the item at place i is the one the previous call
\* showed for its key
SameElement(i) ==
    /\ keySelector(renderer.items[i]) \in DOMAIN renderer.before.elementMap
    /\ renderer.children[i] = renderer.before.elementMap[keySelector(renderer.items[i])]

\* the key of the item at place i was in the previous call, with the same
\* JSON text
SameJson(i) ==
    /\ keySelector(renderer.items[i]) \in PreviousKeys
    /\ stringify(PreviousItem(keySelector(renderer.items[i]))) = stringify(renderer.items[i])

\* the calls of createElement the last call made for the item at place i
CreatedFor(i) ==
    Cardinality({c \in 1..Len(renderer.created) : renderer.created[c] = i - 1})

\* C36: after a call, the element shown for an item is the one shown for
\* its key after the previous call exactly when the key was in the previous
\* call and the JSON text of the item is the same; otherwise createElement
\* was called once for the item, and its result, made from this item, is
\* the child at the place of the item, the old element of the key being a
\* child no more.
C36_SameElementIffSameJson ==
    Called35 =>
        \A i \in 1..Len(renderer.items) :
            /\ SameElement(i) <=> SameJson(i)
            /\ SameElement(i) => CreatedFor(i) = 0
            /\ ~SameElement(i) =>
                  /\ CreatedFor(i) = 1
                  /\ renderer.children[i] > renderer.before.elements
                  /\ renderer.elements[renderer.children[i]] = renderer.items[i]
                  /\ \A k \in DOMAIN renderer.before.elementMap :
                        k = keySelector(renderer.items[i])
                        => \A j \in 1..Len(renderer.children) :
                               renderer.children[j] # renderer.before.elementMap[k]

\* a call kept the element of an item that changed without its JSON text
\* changing, next to an element it made
C36_Witness ==
    /\ renderer.calls >= 2
    /\ \E i \in 1..Len(renderer.items) :
          /\ SameElement(i)
          /\ PreviousItem(keySelector(renderer.items[i])) # renderer.items[i]
    /\ \E i \in 1..Len(renderer.items) : ~SameElement(i)





=============================================================================
